---- MODULE Spec2Model ----
(***************************************************************************)
(* Backend selection and multi-protocol dispatch of Qwen-Image-Edit.       *)
(*                                                                         *)
(* Two backends serve POST /api/generate: the Cloudflare Workers variant   *)
(* (worker/index.ts) and the long-running server variant (server/index.ts, *)
(* kept as unnamed/part_005).  One request is handled at a time; every     *)
(* action is one step of a handler between two awaits.  Replies of the     *)
(* external services (local GPU server, Replicate, HuggingFace Spaces,     *)
(* MyMemory) are inputs drawn at the step that reads them.                 *)
(***************************************************************************)
EXTENDS Integers, Sequences, FiniteSets, TLC

VARIABLES
  variant,             \* "worker" | "server": which backend runs
  client,              \* "ui" | "api": who sends the requests
  trace,               \* "endings" | "detailed": what `seen` keeps
  now,                 \* Date.now(), in milliseconds
  apiToken,            \* env.REPLICATE_API_TOKEN is configured
  envHfUrl,            \* env.HF_SPACE_URL, Null when not configured
  models,              \* model registry read by getModel: id -> ModelConfig
  backendStatusCache,  \* worker: cached BackendStatus, Null before a probe
  lastCheckTime,       \* worker: time of the last completed probe cycle
  backendStatus,       \* server: the process-wide BackendStatus
  bagelBackendStatus,  \* server: the BAGEL backend status
  lastCycleEnd,        \* history: when the last probe cycle completed, -1 before
  prober,              \* who runs the probe cycle in progress
  probeLog,            \* outbound probes of the last probe cycle, in order
  probeRes,            \* what each probe of that cycle answered
  pc,                  \* position of the request handler
  req,                 \* the parsed form of the request in progress
  prompt,              \* the handler's `prompt` variable
  selectedModel,       \* the handler's `selectedModel` variable
  adapter,             \* adapter function being executed
  target,              \* URL the adapter talks to
  usedBackend,         \* the handler's `usedBackend` variable
  attempts,            \* callReplicateAPI: the loop counter
  polls,               \* callReplicateAPI: polls issued for this request
  waits,               \* callReplicateAPI: 5-second waits of this request
  lineNo,              \* Gradio adapters: lines of the stream consumed
  calls,               \* outbound operations made for this request
  seen,                \* replies observed by this request
  statusAge,           \* age of the status the request was routed on
  resp,                \* the response sent, Null while in progress
  registry,            \* the stored ModelsData (MODELS_KV / models.json)
  sessions,            \* the session store: session id -> createdAt
  issued,              \* history: every session id generated -> its createdAt
  loggedOut,           \* history: the session ids that were logged out
  authResp,            \* the last answer of POST /api/auth/login
  adm,                 \* the admin requests in progress, one per browser tab
  admCount,            \* admin requests started so far
  frame,               \* the call of a helper function that is executing
  ui                   \* the state of the App component in the browser

vars == << variant, client, trace, now, apiToken, envHfUrl, models, backendStatusCache,
           lastCheckTime, backendStatus, bagelBackendStatus, lastCycleEnd,
           prober,
           probeLog, probeRes, pc, req, prompt, selectedModel, adapter,
           target, usedBackend, attempts, polls, waits, lineNo, calls,
           seen,
           statusAge, resp, registry, sessions, issued, loggedOut, authResp,
           adm, admCount, frame, ui >>

sessionLog == << issued, loggedOut, authResp >>
adminVars == << registry, sessions, sessionLog, adm, admCount >>
envVars   == << variant, client, trace, apiToken, envHfUrl, models, adminVars,
                frame, ui >>
cacheVars == << backendStatusCache, lastCheckTime, backendStatus,
                bagelBackendStatus, lastCycleEnd >>
probeVars == << prober, probeLog, probeRes >>
replVars  == << attempts, polls, waits >>

\* null / undefined: of a string, and of an object
Null == "null"
None == [none |-> TRUE]

-----------------------------------------------------------------------------
(* Bounds *)

\* the clock advances in steps of TickMs, at most MaxTicks times
MaxTicks == 1
\* lines of a Gradio result stream that are examined
MaxLines == 2
\* admin requests started in one run
MaxAdminRequests == 3
\* how far past the session lifetime the admin clock runs, in milliseconds
MaxLateMs == 1
\* the base sizes from 1 to MaxBaseSize are tried, besides those of the UI
MaxBaseSize == 40
\* length of the error page a gateway answers with, in characters
MaxBodyLen == 101
\* the buffers of 0 to MaxSmallLen bytes are tried, besides those around
\* the chunk size
MaxSmallLen == 12

\* granularity of the modelled clock, in milliseconds
TickMs == 31000

\* the clock counts from the start of the process; the epoch, the
\* `lastCheck: 0` of the server's initial values, lies this far before it
EpochAgoMs == 100000

-----------------------------------------------------------------------------
(* Program constants *)

CACHE_TTL_MS == 30000
maxAttempts == 60

DEFAULT_HF_SPACE_URL == "https://qwen-qwen-image-edit-2511.hf.space"
BAGEL_SPACE_URL == "https://bytedance-seed-bagel.hf.space"
ZIMAGE_SPACE_URL == "https://tongyi-mai-z-image-turbo.hf.space"
FLUX2_SPACE_URL == "https://black-forest-labs-flux-2-dev.hf.space"
SD_SPACE_URL == "https://stabilityai-stable-diffusion.hf.space"
DEFAULT_PYTHON_SERVER_URL == "http://localhost:8000"
REPLICATE_URL == "https://api.replicate.com/v1/models/qwen/qwen-image-edit-2511"
CUSTOM_HF_SPACE_URL == "https://custom.hf.space"

-----------------------------------------------------------------------------
(* Model registry (worker/model-manager.ts) *)

ModelConfig(t, s, e) == [type |-> t, source |-> s, enabled |-> e]

defaultConfig ==
  [ id \in { "qwen-image-edit", "stable-diffusion-v1-5", "huggingface-cloud",
             "bagel-7b-mot", "z-image-turbo", "flux2-dev" } |->
      CASE id = "qwen-image-edit"       -> ModelConfig("diffusers", "Qwen/Qwen-Image-Edit-2511", TRUE)
        [] id = "stable-diffusion-v1-5" -> ModelConfig("onnx", "runwayml/stable-diffusion-v1-5", TRUE)
        [] id = "huggingface-cloud"     -> ModelConfig("cloud", DEFAULT_HF_SPACE_URL, TRUE)
        [] id = "bagel-7b-mot"          -> ModelConfig("cloud", BAGEL_SPACE_URL, TRUE)
        [] id = "z-image-turbo"         -> ModelConfig("cloud", ZIMAGE_SPACE_URL, TRUE)
        [] id = "flux2-dev"             -> ModelConfig("cloud", FLUX2_SPACE_URL, TRUE) ]

\* a registry after admin edits: one special family and the cloud demo
\* disabled, a cloud model of the admin's own added
editedConfig ==
  [ id \in DOMAIN defaultConfig \cup {"my-cloud"} |->
      CASE id = "my-cloud"          -> ModelConfig("cloud", "https://my-cloud.hf.space", TRUE)
        [] id = "bagel-7b-mot"      -> ModelConfig("cloud", BAGEL_SPACE_URL, FALSE)
        [] id = "huggingface-cloud" -> ModelConfig("cloud", DEFAULT_HF_SPACE_URL, FALSE)
        [] OTHER                    -> defaultConfig[id] ]

\* getModel: config.models.find(m => m.id === id), undefined when absent
getModel(ms, id) ==
  IF id \in DOMAIN ms THEN [id |-> id] @@ ms[id] ELSE None

-----------------------------------------------------------------------------
(* Backend health prober (worker) *)

Status(m, b, gpu, loaded, t) ==
  [mode |-> m, backend |-> b, gpuName |-> gpu, modelLoaded |-> loaded,
   lastCheck |-> t]

\* GET {pythonUrl}/health; the fields are those of the health reply
checkLocalServer(ok, t) ==
  IF ok THEN Status("local", "cuda", "Local GPU", TRUE, t) ELSE None

\* GET api.replicate.com/v1/models/...; no request without a token
checkReplicateAPI(token, ok, t) ==
  IF ~token THEN None
  ELSE IF ok THEN Status("cloud", "replicate", "Replicate Cloud GPU", TRUE, t)
  ELSE None

\* GET {hfUrl}/config
checkHFSpace(ok, t) ==
  IF ok THEN Status("cloud", "huggingface", "Cloud GPU (ZeroGPU)", TRUE, t)
  ELSE None

unavailable(t) == Status("unavailable", "", "", FALSE, t)

HfSpaceUrl == IF envHfUrl = Null THEN DEFAULT_HF_SPACE_URL ELSE envHfUrl

-----------------------------------------------------------------------------
(* Requests *)

\* the prompt field: missing, or a string given by the Unicode block of
\* each of its characters
Text(t) == [given |-> TRUE, text |-> t]
NoPrompt == [given |-> FALSE, text |-> << >>]
Prompts == { NoPrompt, Text(<< >>), Text(<< "latin" >>),
             Text(<< "latin", "hiragana" >>) }

\* the prompts of a user who writes Japanese: each block the pattern of
\* containsJapanese names, alone and mixed with Latin text
JapanesePrompts == { Text(<< "katakana" >>), Text(<< "cjk", "latin" >>) }

PromptsOf(who) == IF who = "ui-ja" THEN Prompts \cup JapanesePrompts ELSE Prompts

RequestModelIds == { Null, "qwen-image-edit", "stable-diffusion-v1-5",
                     "huggingface-cloud", "bagel-7b-mot", "z-image-turbo",
                     "flux2-dev", "my-cloud" }

Modes == { "generate", "edit", "combine" }

imageCount(r) == (IF r.image1 THEN 1 ELSE 0) + (IF r.image2 THEN 1 ELSE 0)

\* the mode the UI sets from the number of images
uiMode(n) == CASE n = 0 -> "generate" [] n = 1 -> "edit" [] OTHER -> "combine"

\* the forms a client sends: images are numbered image1, image2 in order;
\* the UI's mode is the one it sets from its image count (the handlers do
\* not read the mode), another client's mode is free
FormsOf(who, ids) ==
  { r \in [ prompt : PromptsOf(who), modelId : ids, mode : Modes,
            image1 : BOOLEAN, image2 : BOOLEAN ] :
      /\ r.image2 => r.image1
      /\ who \in { "ui", "ui-ja" } => r.mode = uiMode(imageCount(r)) }

\* the models the Japanese-writing user picks: the default and Z-Image
JaModelIds == { Null, "z-image-turbo" }

Requests ==
  FormsOf(client, IF client = "ui-ja" THEN JaModelIds ELSE RequestModelIds)

NoRequest == [ prompt |-> NoPrompt, modelId |-> Null, mode |-> "generate",
               image1 |-> FALSE, image2 |-> FALSE ]

\* a check that tests the field's presence only
promptMissing_presenceOnly(p) == ~p.given

\* `!prompt`: a missing field and the empty string are both falsy
promptMissing(p) == ~p.given \/ p.text = << >>

-----------------------------------------------------------------------------
(* Stored registry and its operations (model-manager.ts of both variants) *)

\* the fields of a ModelConfig the operations look at
Entry(id, e, d) == [id |-> id, enabled |-> e, isDefault |-> d]

\* the worker's defaultConfig, stored on first use
defaultRegistry ==
  [ models |-> << Entry("qwen-image-edit", TRUE, FALSE),
                  Entry("stable-diffusion-v1-5", TRUE, FALSE),
                  Entry("huggingface-cloud", TRUE, TRUE),
                  Entry("bagel-7b-mot", TRUE, FALSE),
                  Entry("z-image-turbo", TRUE, FALSE),
                  Entry("flux2-dev", TRUE, FALSE) >>,
    settings |-> [activeModelId |-> "huggingface-cloud", fallbackToCloud |-> TRUE] ]

\* the server's default, written when models.json does not exist
serverRegistry ==
  [ models |-> << >>,
    settings |-> [activeModelId |-> "", fallbackToCloud |-> TRUE] ]

UpperCase == << "A", "B", "C", "D", "E", "F", "G", "H", "I", "J", "K", "L", "M",
                "N", "O", "P", "Q", "R", "S", "T", "U", "V", "W", "X", "Y", "Z" >>
LowerCase == << "a", "b", "c", "d", "e", "f", "g", "h", "i", "j", "k", "l", "m",
                "n", "o", "p", "q", "r", "s", "t", "u", "v", "w", "x", "y", "z" >>
Digits == { "0", "1", "2", "3", "4", "5", "6", "7", "8", "9" }
AlphaNum == { LowerCase[i] : i \in DOMAIN LowerCase } \cup Digits

\* String.prototype.toLowerCase, one character
toLowerCase(c) ==
  IF \E i \in DOMAIN UpperCase : UpperCase[i] = c
  THEN LowerCase[CHOOSE i \in DOMAIN UpperCase : UpperCase[i] = c]
  ELSE c

\* .replace(/[^a-z0-9]+/g, '-'): the last character of a run writes the dash
RECURSIVE dashRuns(_)
dashRuns(cs) ==
  IF cs = << >> THEN << >>
  ELSE IF Head(cs) \in AlphaNum THEN << Head(cs) >> \o dashRuns(Tail(cs))
  ELSE IF Tail(cs) # << >> /\ Head(Tail(cs)) \notin AlphaNum THEN dashRuns(Tail(cs))
  ELSE << "-" >> \o dashRuns(Tail(cs))

\* .replace(/^-|-$/g, '')
trimDash(cs) ==
  LET a == IF cs # << >> /\ Head(cs) = "-" THEN Tail(cs) ELSE cs
  IN  IF a # << >> /\ a[Len(a)] = "-" THEN SubSeq(a, 1, Len(a) - 1) ELSE a

RECURSIVE joinChars(_)
joinChars(cs) == IF cs = << >> THEN "" ELSE Head(cs) \o joinChars(Tail(cs))

generateModelId(name) ==
  joinChars(trimDash(dashRuns([i \in DOMAIN name |-> toLowerCase(name[i])])))

\* what an operation of the model manager did: returned, or threw `message`
Ok(cfg) == [ok |-> TRUE, config |-> cfg, message |-> Null]
Err(cfg, msg) == [ok |-> FALSE, config |-> cfg, message |-> msg]

\* findIndex, counted from 1; 0 when no entry has the id
findIndex(ms, id) ==
  IF \E i \in DOMAIN ms : ms[i].id = id
  THEN CHOOSE i \in DOMAIN ms : ms[i].id = id /\ \A j \in 1..(i - 1) : ms[j].id # id
  ELSE 0

\* a version that leaves the other models' flags alone
clearDefaults_keeps(ms) == ms

\* config.models.forEach((m) => (m.isDefault = false))
clearDefaults(ms) == [i \in DOMAIN ms |-> [ms[i] EXCEPT !.isDefault = FALSE]]

\* an optional boolean of a JSON body: "absent", "true" or "false"
Field(u, old) == CASE u = "true" -> TRUE [] u = "false" -> FALSE [] OTHER -> old

\* {...config.models[index], ...updates}
mergeModel(m, u) ==
  [ id |-> IF u.id = Null THEN m.id ELSE u.id,
    enabled |-> Field(u.enabled, m.enabled),
    isDefault |-> Field(u.isDefault, m.isDefault) ]

\* the handler of POST /api/admin/models fills in isDefault || false and
\* enabled !== false
addModel(cfg, name, body) ==
  LET id == generateModelId(name)
      newModel == Entry(id, Field(body.enabled, TRUE), Field(body.isDefault, FALSE))
      others == IF newModel.isDefault THEN clearDefaults(cfg.models) ELSE cfg.models
  IN  IF \E i \in DOMAIN cfg.models : cfg.models[i].id = id
      THEN Err(cfg, "same name exists")
      ELSE Ok([cfg EXCEPT !.models = Append(others, newModel)])

updateModel(cfg, id, updates) ==
  LET index == findIndex(cfg.models, id)
      ms == IF updates.isDefault = "true" THEN clearDefaults(cfg.models)
            ELSE cfg.models
  IN  IF index = 0
      THEN Err(cfg, "model not found")
      ELSE Ok([cfg EXCEPT !.models = [ms EXCEPT ![index] = mergeModel(ms[index], updates)]])

\* config.models.splice(index, 1)
splice(ms, index) == SubSeq(ms, 1, index - 1) \o SubSeq(ms, index + 1, Len(ms))

\* a version without the guard on the active model
deletable_any(cfg, id) == TRUE

\* `config.settings.activeModelId === id` throws
deletable(cfg, id) == cfg.settings.activeModelId # id

deleteModel(cfg, id) ==
  LET index == findIndex(cfg.models, id)
  IN  IF index = 0 THEN Err(cfg, "model not found")
      ELSE IF ~deletable(cfg, id) THEN Err(cfg, "active model cannot be deleted")
      ELSE Ok([cfg EXCEPT !.models = splice(cfg.models, index)])

updateSettings(cfg, updates) ==
  LET want == updates.activeModelId
      given == want # Null /\ want # ""
      index == findIndex(cfg.models, want)
  IN  IF given /\ index = 0 THEN Err(cfg, "model does not exist")
      ELSE IF given /\ ~cfg.models[index].enabled THEN Err(cfg, "model is disabled")
      ELSE Ok([cfg EXCEPT !.settings =
                 [ activeModelId |-> IF want = Null THEN @.activeModelId ELSE want,
                   fallbackToCloud |-> Field(updates.fallbackToCloud, @.fallbackToCloud) ]])

\* the JSON body of an admin request; Null and "absent" are fields not sent
Body(id, e, d, active, fb) ==
  [id |-> id, enabled |-> e, isDefault |-> d, activeModelId |-> active,
   fallbackToCloud |-> fb]
NoBody == Body(Null, "absent", "absent", Null, "absent")

\* an admin request: the route, its :id, the name of a new model, the body
Op(kind, id, name, body) == [kind |-> kind, id |-> id, name |-> name, body |-> body]
NoOp == Op("none", Null, << >>, NoBody)

NameMyCloud == << "M", "y", " ", "C", "l", "o", "u", "d" >>
NameFlux2 == << "F", "L", "U", "X", "2", "_", "d", "e", "v", "!" >>

AdminOps ==
  { Op("getAllModels", Null, << >>, NoBody),
    Op("addModel", Null, NameMyCloud, Body(Null, "absent", "true", Null, "absent")),
    Op("addModel", Null, NameFlux2, Body(Null, "absent", "true", Null, "absent")),
    Op("updateModel", "flux2-dev", << >>, Body(Null, "absent", "true", Null, "absent")),
    Op("updateModel", "huggingface-cloud", << >>, Body(Null, "false", "absent", Null, "absent")),
    Op("updateModel", "ghost", << >>, Body(Null, "absent", "true", Null, "absent")),
    Op("updateModel", "flux2-dev", << >>,
       Body("huggingface-cloud", "absent", "absent", Null, "absent")),
    Op("deleteModel", "flux2-dev", << >>, NoBody),
    Op("deleteModel", "huggingface-cloud", << >>, NoBody),
    Op("deleteModel", "ghost", << >>, NoBody),
    Op("updateSettings", Null, << >>, Body(Null, "absent", "absent", "flux2-dev", "absent")),
    Op("updateSettings", Null, << >>, Body(Null, "absent", "absent", Null, "false")) }

\* the settings requests: an enabled model, a disabled one, a deleted one,
\* one that never was, the empty string, and no activeModelId at all
SettingsOps ==
  { Op("updateModel", "huggingface-cloud", << >>, Body(Null, "false", "absent", Null, "absent")),
    Op("deleteModel", "flux2-dev", << >>, NoBody),
    Op("updateSettings", Null, << >>, Body(Null, "absent", "absent", "flux2-dev", "absent")),
    Op("updateSettings", Null, << >>, Body(Null, "absent", "absent", "huggingface-cloud", "true")),
    Op("updateSettings", Null, << >>, Body(Null, "absent", "absent", "ghost", "absent")),
    Op("updateSettings", Null, << >>, Body(Null, "absent", "absent", "", "absent")),
    Op("updateSettings", Null, << >>, Body(Null, "absent", "absent", Null, "false")) }

\* a read and a write, for the requests whose point is the session
AuthOps ==
  { Op("getAllModels", Null, << >>, NoBody),
    Op("addModel", Null, NameMyCloud, Body(Null, "absent", "true", Null, "absent")) }

\* the operation of the model manager a route calls
apply(op, cfg) ==
  CASE op.kind = "addModel" -> addModel(cfg, op.name, op.body)
    [] op.kind = "updateModel" -> updateModel(cfg, op.id, op.body)
    [] op.kind = "deleteModel" -> deleteModel(cfg, op.id)
    [] op.kind = "updateSettings" -> updateSettings(cfg, op.body)
    [] OTHER -> Ok(cfg)

-----------------------------------------------------------------------------
(* Sessions (auth.ts of both variants) *)

\* the session lifetime, in seconds
SESSION_TTL == 24 * 60 * 60

SessionIds == { "s1" }
Cookies == { Null, "forged" } \cup SessionIds
NoSessions == [ id \in {} |-> 0 ]

\* a check that never expires a session
expired_never(t, createdAt) == FALSE

\* Date.now() - createdAt > SESSION_TTL * 1000
expired(t, createdAt) == t - createdAt > SESSION_TTL * 1000

\* a validation that leaves the expired session in the store
validateSession_keepsExpired(store, sessionId, t) ==
  IF sessionId = Null \/ sessionId \notin DOMAIN store
  THEN [valid |-> FALSE, store |-> store]
  ELSE [valid |-> ~expired(t, store[sessionId]), store |-> store]

\* validateSession: the session found, and the store after the removal of an
\* expired session
validateSession(store, sessionId, t) ==
  IF sessionId = Null \/ sessionId \notin DOMAIN store
  THEN [valid |-> FALSE, store |-> store]
  ELSE IF expired(t, store[sessionId])
  THEN [valid |-> FALSE,
        store |-> [ id \in DOMAIN store \ {sessionId} |-> store[id] ]]
  ELSE [valid |-> TRUE, store |-> store]

\* the browser tabs of the admin page, each with one request at a time
AdminTabs == { "tab1", "tab2" }

IdleRequest ==
  [ pc |-> "idle", cookie |-> Null, op |-> NoOp, config |-> None,
    saved |-> None, authAt |-> -1, sessionAt |-> -1, afterLogout |-> FALSE,
    read |-> FALSE, wrote |-> FALSE,
    status |-> 0, message |-> Null ]

AdminIdle ==
  /\ adm = [ h \in AdminTabs |-> IdleRequest ]
  /\ admCount = 0

-----------------------------------------------------------------------------
(* The App component (App.tsx, PropertiesPanel.tsx, ImageCanvas.tsx) *)

\* drop events whose files are still being read, and /api/generate requests
\* in flight (one while the button works as written)
MaxPendingDrops == 2
MaxDropFiles == 2
MaxFetches == 2
\* the images a user adds before generating, one file at a time
MaxGenerateImages == 2

\* the prompt as its characters
UiPrompts == { << >>, << " ", " " >>, << "a", " " >> }

RECURSIVE trimStart(_)
trimStart(cs) ==
  IF cs = << >> THEN cs
  ELSE IF Head(cs) = " " THEN trimStart(Tail(cs)) ELSE cs

RECURSIVE trimEnd(_)
trimEnd(cs) ==
  IF cs = << >> THEN cs
  ELSE IF cs[Len(cs)] = " " THEN trimEnd(SubSeq(cs, 1, Len(cs) - 1)) ELSE cs

\* String.prototype.trim
trim(cs) == trimEnd(trimStart(cs))

\* the GenerationStatus object
GenerationStatus(p, n, m) == [isProcessing |-> p, progress |-> n, message |-> m]

\* images.filter(img => img.enabled).length; an image is its `enabled` flag
enabledImageCount(images) ==
  Cardinality({ i \in DOMAIN images : images[i] })

\* array.slice(0, n) for n >= 0
sliceTo(xs, n) == SubSeq(xs, 1, IF n < Len(xs) THEN n ELSE Len(xs))

\* what a render hands to the handlers it creates and to the elements it
\* draws: the values of the state at that render
snapshot(u) ==
  [images |-> u.images, editMode |-> u.editMode, prompt |-> u.prompt,
   isProcessing |-> u.status.isProcessing]

\* the state after React rendered it
commit(u) == [u EXCEPT !.rendered = snapshot(u)]

\* the useState initial values
InitialUi ==
  commit([images |-> << >>, outputImage |-> Null, prompt |-> << >>,
          editMode |-> "generate",
          status |-> GenerationStatus(FALSE, 0, "ready"),
          rendered |-> None, drops |-> << >>, fetches |-> << >>,
          manual |-> FALSE])

\* a button that looks at the prompt only
canGenerate_promptOnly(text, isProcessing, editMode, enabled) ==
  trim(text) # << >>

\* PropertiesPanel: canGenerate, the negation of the button's `disabled`
canGenerate(text, isProcessing, editMode, enabled) ==
  IF trim(text) = << >> THEN FALSE
  ELSE IF isProcessing THEN FALSE
  ELSE IF editMode = "edit" /\ enabled < 1 THEN FALSE
  ELSE IF editMode = "combine" /\ enabled < 2 THEN FALSE
  ELSE TRUE

\* what fetch('/api/generate') can bring: a 200 with or without `image` in
\* its JSON, a 200 or an error status whose body is not JSON, an error
\* status with or without `message`, or a rejected fetch
GenerateReplies ==
  { "ok image", "ok no image", "ok not json", "error message",
    "error no message", "error not json", "rejected" }

-----------------------------------------------------------------------------
(* Initial state *)

NoProbes == [local |-> "none", replicate |-> "none", hf |-> "none"]

InitStatusServer == Status("unavailable", "", "", FALSE, 0 - EpochAgoMs)
InitBagelStatus ==
  [mode |-> "unavailable", modelLoaded |-> FALSE, lastCheck |-> 0 - EpochAgoMs]

RequestIdle ==
  /\ req = NoRequest
  /\ prompt = << >>
  /\ selectedModel = None
  /\ adapter = Null
  /\ target = Null
  /\ usedBackend = Null
  /\ attempts = 0
  /\ polls = 0
  /\ waits = 0
  /\ lineNo = 0
  /\ calls = {}
  /\ seen = {}
  /\ statusAge = -1
  /\ resp = None

\* a deployment: the Replicate token, env.HF_SPACE_URL and the registry
Deployment(token, url, ms) == [apiToken |-> token, envHfUrl |-> url, models |-> ms]

\* a fresh deployment without and with a token, and a customised one
Deployments == { Deployment(FALSE, Null, defaultConfig),
                 Deployment(TRUE, Null, defaultConfig),
                 Deployment(TRUE, CUSTOM_HF_SPACE_URL, editedConfig) }

InitWorker(ds) ==
  /\ variant = "worker"
  /\ \E d \in ds :
       /\ apiToken = d.apiToken
       /\ envHfUrl = d.envHfUrl
       /\ models = d.models
  /\ registry = defaultRegistry
  /\ prober = Null
  /\ pc = "idle"

\* the server module calls initBackend() when it is loaded
InitServer ==
  /\ variant = "server"
  /\ apiToken = FALSE
  /\ envHfUrl = Null
  /\ models = defaultConfig
  /\ registry = serverRegistry
  /\ prober = "startup"
  /\ pc = "srvProbeLocal"

InitCommon ==
  /\ now = 0
  /\ ui = InitialUi
  /\ AdminIdle
  /\ frame = None
  /\ backendStatusCache = None
  /\ lastCheckTime = 0
  /\ backendStatus = InitStatusServer
  /\ bagelBackendStatus = InitBagelStatus
  /\ lastCycleEnd = -1
  /\ probeLog = << >>
  /\ probeRes = NoProbes
  /\ RequestIdle

\* requests of the UI, every deployment
Init ==
  /\ InitCommon
  /\ sessions = NoSessions
  /\ issued = sessions
  /\ loggedOut = {}
  /\ authResp = None
  /\ client = "ui"
  /\ trace = "endings"
  /\ (InitWorker(Deployments) \/ InitServer)

\* requests of the UI, the deployment with a Replicate token
InitToken ==
  /\ InitCommon
  /\ sessions = NoSessions
  /\ issued = sessions
  /\ loggedOut = {}
  /\ authResp = None
  /\ client = "ui"
  /\ trace = "detailed"
  /\ (InitWorker({Deployment(TRUE, Null, defaultConfig)}) \/ InitServer)

\* requests of any client, the customised deployment
InitApi ==
  /\ InitCommon
  /\ sessions = NoSessions
  /\ issued = sessions
  /\ loggedOut = {}
  /\ authResp = None
  /\ client = "api"
  /\ trace = "endings"
  /\ (InitWorker({Deployment(TRUE, CUSTOM_HF_SPACE_URL, editedConfig)}) \/ InitServer)

\* requests of a user who writes Japanese, the deployment with a token
InitJa ==
  /\ InitCommon
  /\ sessions = NoSessions
  /\ issued = sessions
  /\ loggedOut = {}
  /\ authResp = None
  /\ client = "ui-ja"
  /\ trace = "endings"
  /\ (InitWorker({Deployment(TRUE, Null, defaultConfig)}) \/ InitServer)

\* the admin page in two tabs of a browser that is logged in
InitRegistry ==
  /\ InitCommon
  /\ sessions = [ id \in SessionIds |-> 0 ]
  /\ issued = sessions
  /\ loggedOut = {}
  /\ authResp = None
  /\ client = "ui"
  /\ trace = "endings"
  /\ (InitWorker({Deployment(TRUE, Null, defaultConfig)}) \/ InitServer)

\* no request in progress: a helper function is called on its own
InitHelper ==
  /\ InitCommon
  /\ sessions = NoSessions
  /\ issued = sessions
  /\ loggedOut = {}
  /\ authResp = None
  /\ client = "ui"
  /\ trace = "endings"
  /\ InitWorker({Deployment(TRUE, Null, defaultConfig)})

\* requests of the UI, the deployment in which every backend can be probed
InitLive ==
  /\ InitCommon
  /\ sessions = NoSessions
  /\ issued = sessions
  /\ loggedOut = {}
  /\ authResp = None
  /\ client = "ui"
  /\ trace = "endings"
  /\ (InitWorker({Deployment(TRUE, Null, defaultConfig)}) \/ InitServer)

\* the admin page before anybody logged in
InitAuth ==
  /\ InitCommon
  /\ sessions = NoSessions
  /\ issued = sessions
  /\ loggedOut = {}
  /\ authResp = None
  /\ client = "ui"
  /\ trace = "endings"
  /\ (InitWorker({Deployment(TRUE, Null, defaultConfig)}) \/ InitServer)

-----------------------------------------------------------------------------
(* Clock *)

\* time passes between requests
Tick ==
  /\ pc = "idle"
  /\ now + TickMs <= MaxTicks * TickMs
  /\ now' = now + TickMs
  /\ UNCHANGED << envVars, cacheVars, probeVars, pc, req, prompt,
                  selectedModel, adapter, target, usedBackend, replVars,
                  lineNo, calls, seen, statusAge, resp >>

-----------------------------------------------------------------------------
(* Probe cycle of the worker: initBackend *)

requestVars == << req, prompt, selectedModel, adapter, target, usedBackend,
                  replVars, lineNo, seen, statusAge, resp >>

\* where the handler that awaited initBackend continues
afterProbe == IF prober = "generate" THEN "dispatch" ELSE "done"

Answer(ok) == IF ok THEN "ok" ELSE "fail"

\* a cycle that goes on to the next backend after the local server answered
initBackend_local_keepsProbing(ok) ==
  /\ variant = "worker"
  /\ pc = "probeLocal"
  /\ probeLog' = Append(probeLog, "local")
  /\ probeRes' = [probeRes EXCEPT !.local = Answer(ok)]
  /\ LET localStatus == checkLocalServer(ok, now) IN
       IF localStatus # None
       THEN /\ backendStatusCache' = localStatus
            /\ lastCheckTime' = now
            /\ lastCycleEnd' = now
       ELSE UNCHANGED << backendStatusCache, lastCheckTime, lastCycleEnd >>
  /\ pc' = "probeReplicate"
  /\ UNCHANGED prober
  /\ calls' = IF prober = "generate" THEN calls \cup {"probe"} ELSE calls
  /\ UNCHANGED << envVars, now, backendStatus, bagelBackendStatus,
                  requestVars >>

\* 1. the local server
initBackend_local(ok) ==
  /\ variant = "worker"
  /\ pc = "probeLocal"
  /\ probeLog' = Append(probeLog, "local")
  /\ probeRes' = [probeRes EXCEPT !.local = Answer(ok)]
  /\ LET localStatus == checkLocalServer(ok, now) IN
       IF localStatus # None
       THEN /\ backendStatusCache' = localStatus
            /\ lastCheckTime' = now
            /\ lastCycleEnd' = now
            /\ pc' = afterProbe
            /\ prober' = Null
       ELSE /\ UNCHANGED << backendStatusCache, lastCheckTime, lastCycleEnd,
                           prober >>
            /\ pc' = "probeReplicate"
  /\ calls' = IF prober = "generate" THEN calls \cup {"probe"} ELSE calls
  /\ UNCHANGED << envVars, now, backendStatus, bagelBackendStatus,
                  requestVars >>

\* 2. the Replicate API
initBackend_replicate(ok) ==
  /\ variant = "worker"
  /\ pc = "probeReplicate"
  /\ (~apiToken => ok = FALSE)
  /\ probeLog' = IF apiToken THEN Append(probeLog, "replicate") ELSE probeLog
  /\ probeRes' = IF apiToken THEN [probeRes EXCEPT !.replicate = Answer(ok)]
                 ELSE probeRes
  /\ LET replicateStatus == checkReplicateAPI(apiToken, ok, now) IN
       IF replicateStatus # None
       THEN /\ backendStatusCache' = replicateStatus
            /\ lastCheckTime' = now
            /\ lastCycleEnd' = now
            /\ pc' = afterProbe
            /\ prober' = Null
       ELSE /\ UNCHANGED << backendStatusCache, lastCheckTime, lastCycleEnd,
                           prober >>
            /\ pc' = "probeHF"
  /\ UNCHANGED << envVars, now, backendStatus, bagelBackendStatus,
                  requestVars, calls >>

\* 3. the HuggingFace Space, else unavailable
initBackend_hf(ok) ==
  /\ variant = "worker"
  /\ pc = "probeHF"
  /\ probeLog' = Append(probeLog, "hf")
  /\ probeRes' = [probeRes EXCEPT !.hf = Answer(ok)]
  /\ LET hfStatus == checkHFSpace(ok, now) IN
       backendStatusCache' = IF hfStatus # None THEN hfStatus
                             ELSE unavailable(now)
  /\ lastCheckTime' = now
  /\ lastCycleEnd' = now
  /\ pc' = afterProbe
  /\ prober' = Null
  /\ UNCHANGED << envVars, now, backendStatus, bagelBackendStatus,
                  requestVars, calls >>

startProbe(who) ==
  /\ prober' = who
  /\ probeLog' = << >>
  /\ probeRes' = NoProbes

\* GET /api/health: re-probe when nothing is cached or the cache is stale
health ==
  /\ variant = "worker"
  /\ pc = "idle"
  /\ (backendStatusCache = None \/ now - lastCheckTime > CACHE_TTL_MS)
  /\ startProbe("health")
  /\ pc' = "probeLocal"
  /\ UNCHANGED << envVars, now, cacheVars, requestVars, calls >>

\* GET /api/status: always probes
status ==
  /\ variant = "worker"
  /\ pc = "idle"
  /\ startProbe("status")
  /\ pc' = "probeLocal"
  /\ UNCHANGED << envVars, now, cacheVars, requestVars, calls >>

-----------------------------------------------------------------------------
(* Responses *)

NoImage == [form |-> "absent", payload |-> "none"]
\* data:<mime>;base64,<payload of the image's bytes>
DataUri(payload) == [form |-> "datauri", payload |-> payload]

\* c.json({error: true, message}, status)
ErrorResponse(st, msg) ==
  [status |-> st, error |-> TRUE, message |-> msg, image |-> NoImage,
   backend |-> Null]

\* c.json({image: result, backend: usedBackend, ...}): status 200
SuccessResponse(img, be) ==
  [status |-> 200, error |-> FALSE, message |-> Null, image |-> img,
   backend |-> be]

\* the value an adapter returned reaches the response; what it threw is
\* caught by the handler's catch and answered with 500
Returned(img) ==
  /\ resp' = SuccessResponse(img, usedBackend)
  /\ pc' = "done"

Threw(msg) ==
  /\ resp' = ErrorResponse(500, msg)
  /\ pc' = "done"

-----------------------------------------------------------------------------
(* Translation pre-pass *)

Japanese == { "hiragana", "katakana", "cjk" }

\* /[\u3040-\u309F\u30A0-\u30FF\u4E00-\u9FAF]/.test(text)
containsJapanese(text) == \E i \in 1..Len(text) : text[i] \in Japanese

TranslationReplies == { "throws", "non2xx", "badStatus", "noText", "ok" }

\* the English text MyMemory returns has no Japanese character left
translatedText(text) == [i \in 1..Len(text) |-> "latin"]

\* a version that trusts any 2xx answer with a text, whatever responseStatus
translateToEnglish_ignoresStatus(text, reply) ==
  IF reply \in { "ok", "badStatus" } THEN translatedText(text) ELSE text

\* `return text` on !res.ok, on a responseStatus other than 200, on a missing
\* translatedText and in the catch
translateToEnglish(text, reply) ==
  IF reply = "ok" THEN translatedText(text) ELSE text

-----------------------------------------------------------------------------
(* POST /api/generate of the worker, up to the choice of the adapter *)

\* a chain of branches that lacks the last family
SpecialFamilies_withoutFlux2 == { "bagel-7b-mot", "z-image-turbo" }

\* the model ids with a branch of their own
SpecialFamilies == { "bagel-7b-mot", "z-image-turbo", "flux2-dev" }

\* selectedModel?.id || modelId || 'qwen-image-edit'
activeModelId(sel, modelId) ==
  IF sel # None THEN sel.id
  ELSE IF modelId # Null THEN modelId
  ELSE "qwen-image-edit"

Adapter(fn, url, be) == [kind |-> "adapter", fn |-> fn, url |-> url, backend |-> be]
Reject(st, msg) == [kind |-> "reject", status |-> st, message |-> msg]

\* the adapter of a special-cased family
routeFamily(id, image1) ==
  CASE id = "bagel-7b-mot" ->
         Adapter(IF image1 THEN "callBagelEditAPI" ELSE "callBagelTextToImageAPI",
                 BAGEL_SPACE_URL, "bagel")
    [] id = "z-image-turbo" -> Adapter("callZImageAPI", ZIMAGE_SPACE_URL, "zimage")
    [] id = "flux2-dev" -> Adapter("callFlux2API", FLUX2_SPACE_URL, "flux2")

\* a check that only looks for a missing status
backendUnusable_nullOnly(cache) == cache = None

\* !backendStatusCache || backendStatusCache.mode === 'unavailable'
backendUnusable(cache) == cache = None \/ cache.mode = "unavailable"

\* a branch without the carve-out
notOnReplicate_none(id) == FALSE

\* the model that Replicate does not offer
notOnReplicate(id) == id = "stable-diffusion-v1-5"

\* the branches with the test of the probed backend ahead of the model type
routeDefault_replicateFirst(cache, sel, id, r, hfUrl) ==
  IF backendUnusable(cache)
  THEN Reject(503, "backend unavailable")
  ELSE IF cache.mode = "local"
  THEN Adapter("callLocalAPI", DEFAULT_PYTHON_SERVER_URL, "local")
  ELSE LET modelType == IF sel # None THEN sel.type ELSE "diffusers" IN
    IF cache.backend = "replicate"
    THEN IF notOnReplicate(id)
         THEN Adapter("callStableDiffusionHF", SD_SPACE_URL, "huggingface")
         ELSE IF ~r.image1 /\ ~r.image2
         THEN Reject(400, "image required")
         ELSE Adapter("callReplicateAPI", REPLICATE_URL, "replicate")
    ELSE IF modelType = "cloud" \/ id = "huggingface-cloud"
    THEN Adapter("callGradioAPI",
                 IF sel # None /\ sel.source # "" THEN sel.source ELSE hfUrl,
                 "huggingface")
    ELSE Adapter("callGradioAPI", hfUrl, "huggingface")

\* the branches without the test of the images ahead of callReplicateAPI
routeDefault_noImageTest(cache, sel, id, r, hfUrl) ==
  IF backendUnusable(cache)
  THEN Reject(503, "backend unavailable")
  ELSE IF cache.mode = "local"
  THEN Adapter("callLocalAPI", DEFAULT_PYTHON_SERVER_URL, "local")
  ELSE LET modelType == IF sel # None THEN sel.type ELSE "diffusers" IN
    IF modelType = "cloud" \/ id = "huggingface-cloud"
    THEN Adapter("callGradioAPI",
                 IF sel # None /\ sel.source # "" THEN sel.source ELSE hfUrl,
                 "huggingface")
    ELSE IF cache.backend = "replicate"
    THEN IF notOnReplicate(id)
         THEN Adapter("callStableDiffusionHF", SD_SPACE_URL, "huggingface")
         ELSE Adapter("callReplicateAPI", REPLICATE_URL, "replicate")
    ELSE Adapter("callGradioAPI", hfUrl, "huggingface")

\* the branch of the default family, from the cached status
routeDefault(cache, sel, id, r, hfUrl) ==
  IF backendUnusable(cache)
  THEN Reject(503, "backend unavailable")
  ELSE IF cache.mode = "local"
  THEN Adapter("callLocalAPI", DEFAULT_PYTHON_SERVER_URL, "local")
  ELSE LET modelType == IF sel # None THEN sel.type ELSE "diffusers" IN
    IF modelType = "cloud" \/ id = "huggingface-cloud"
    THEN Adapter("callGradioAPI",
                 IF sel # None /\ sel.source # "" THEN sel.source ELSE hfUrl,
                 "huggingface")
    ELSE IF cache.backend = "replicate"
    THEN IF notOnReplicate(id)
         THEN Adapter("callStableDiffusionHF", SD_SPACE_URL, "huggingface")
         ELSE IF ~r.image1 /\ ~r.image2
         THEN Reject(400, "image required")
         ELSE Adapter("callReplicateAPI", REPLICATE_URL, "replicate")
    ELSE Adapter("callGradioAPI", hfUrl, "huggingface")

handlerVars == << selectedModel, adapter, target, usedBackend, replVars,
                  lineNo, seen, statusAge >>

\* formData(); `if (!prompt)` answers 400
generate_receive(r) ==
  /\ variant = "worker"
  /\ pc = "idle"
  /\ req' = r
  /\ IF promptMissing(r.prompt)
     THEN /\ resp' = ErrorResponse(400, "prompt required")
          /\ pc' = "done"
          /\ UNCHANGED prompt
     ELSE /\ prompt' = r.prompt.text
          /\ pc' = IF r.modelId # Null THEN "getModel" ELSE "translate"
          /\ UNCHANGED resp
  /\ UNCHANGED << envVars, now, cacheVars, probeVars, handlerVars, calls >>

\* selectedModel = await getModel(...); a disabled model counts as none
generate_getModel ==
  /\ variant = "worker"
  /\ pc = "getModel"
  /\ LET m == getModel(models, req.modelId) IN
       selectedModel' = IF m = None \/ ~m.enabled THEN None ELSE m
  /\ calls' = calls \cup {"getModel"}
  /\ pc' = "translate"
  /\ UNCHANGED << envVars, now, cacheVars, probeVars, req, prompt, adapter,
                  target, usedBackend, replVars, lineNo, seen, statusAge,
                  resp >>

\* if (containsJapanese(prompt)) prompt = await translateToEnglish(prompt)
generate_translate(reply) ==
  /\ variant = "worker"
  /\ pc = "translate"
  /\ IF containsJapanese(prompt)
     THEN /\ prompt' = translateToEnglish(prompt, reply)
          /\ calls' = calls \cup {"translate"}
          /\ seen' = seen \cup
                     (IF reply # "ok" THEN {"translation failed"} ELSE {})
     ELSE /\ reply = "ok"
          /\ UNCHANGED << prompt, calls, seen >>
  /\ pc' = "route"
  /\ UNCHANGED << envVars, now, cacheVars, probeVars, req, selectedModel,
                  adapter, target, usedBackend, replVars, lineNo, statusAge,
                  resp >>

StartAdapter(a) ==
  /\ adapter' = a.fn
  /\ target' = a.url
  /\ usedBackend' = a.backend
  /\ pc' = "call"

needsProbe(cache) == cache = None \/ cache.mode = "unavailable"

\* the branch on activeModelId; the default family probes when nothing
\* usable is cached
generate_route ==
  /\ variant = "worker"
  /\ pc = "route"
  /\ LET id == activeModelId(selectedModel, req.modelId) IN
       IF id \in SpecialFamilies
       THEN /\ StartAdapter(routeFamily(id, req.image1))
            /\ UNCHANGED probeVars
       ELSE IF needsProbe(backendStatusCache)
       THEN /\ startProbe("generate")
            /\ pc' = "probeLocal"
            /\ UNCHANGED << adapter, target, usedBackend >>
       ELSE /\ pc' = "dispatch"
            /\ UNCHANGED << probeVars, adapter, target, usedBackend >>
  /\ UNCHANGED << envVars, now, cacheVars, req, prompt, selectedModel,
                  replVars, lineNo, calls, seen, statusAge, resp >>

\* the default family, after the probe if there was one
generate_dispatch ==
  /\ variant = "worker"
  /\ pc = "dispatch"
  /\ statusAge' = now - lastCheckTime
  /\ LET d == routeDefault(backendStatusCache, selectedModel,
                           activeModelId(selectedModel, req.modelId), req,
                           HfSpaceUrl) IN
       IF d.kind = "reject"
       THEN /\ resp' = ErrorResponse(d.status, d.message)
            /\ pc' = "done"
            /\ UNCHANGED << adapter, target, usedBackend >>
       ELSE /\ StartAdapter(d)
            /\ UNCHANGED resp
  /\ UNCHANGED << envVars, now, cacheVars, probeVars, req, prompt,
                  selectedModel, replVars, lineNo, calls, seen >>

\* the response is out; the next request starts from a clean handler
finish ==
  /\ pc = "done"
  /\ pc' = "idle"
  /\ req' = NoRequest
  /\ prompt' = << >>
  /\ selectedModel' = None
  /\ adapter' = Null
  /\ target' = Null
  /\ usedBackend' = Null
  /\ attempts' = 0
  /\ polls' = 0
  /\ waits' = 0
  /\ lineNo' = 0
  /\ calls' = {}
  /\ seen' = {}
  /\ statusAge' = -1
  /\ resp' = None
  /\ probeLog' = << >>
  /\ probeRes' = NoProbes
  /\ UNCHANGED << envVars, now, cacheVars, prober >>

-----------------------------------------------------------------------------
(* Local adapter *)

LocalReplies == { "throws", "non2xx", "ok datauri", "ok base64", "ok absent" }

\* what `data.image` of a 2xx reply is: passed through unchanged
localImage(reply) ==
  CASE reply = "ok datauri" -> DataUri("image")
    [] reply = "ok base64"  -> [form |-> "base64", payload |-> "image"]
    [] reply = "ok absent"  -> NoImage

callLocalAPI(reply) ==
  /\ variant = "worker"
  /\ pc = "call"
  /\ adapter = "callLocalAPI"
  /\ calls' = calls \cup {"callLocalAPI"}
  /\ seen' = seen \cup {"local " \o reply}
  /\ CASE reply = "throws" -> Threw("fetch failed")
       [] reply = "non2xx" -> Threw("local generation failed")
       [] OTHER            -> Returned(localImage(reply))
  /\ UNCHANGED << envVars, now, cacheVars, probeVars, req, prompt,
                  selectedModel, adapter, target, usedBackend, replVars,
                  lineNo, statusAge >>

-----------------------------------------------------------------------------
(* Download of an output image: fetch(url), arrayBuffer, base64 *)

DownloadReplies == { "ok", "non2xx", "throws" }

\* the body that is encoded: the image, or the error page of a non-2xx
\* reply when the adapter does not look at imageRes.ok
downloaded(reply) == IF reply = "ok" THEN "image" ELSE "error body"

-----------------------------------------------------------------------------
(* Replicate adapter: create the prediction, poll, download *)

PredictionStatuses == { "starting", "processing", "succeeded", "failed",
                        "canceled" }

\* a prediction object: status, has output, has error, has urls.get
Predictions == [ status : PredictionStatuses, output : BOOLEAN,
                 error : BOOLEAN, urlsGet : BOOLEAN ]

NoPrediction == [ status |-> "starting", output |-> FALSE, error |-> FALSE,
                  urlsGet |-> FALSE ]

HttpReplies == { "ok", "non2xx", "throws" }

\* a reply that ends nothing is kept in `seen` only by a detailed trace
Detail(what) == IF trace = "detailed" THEN {what} ELSE {}

\* message.includes(sub)
includes(s, sub) ==
  \E i \in 0..(Len(s) - Len(sub)) : SubSeq(s, i + 1, i + Len(sub)) = sub

\* the body of a non-2xx answer: its text, whether JSON.parse accepts it,
\* and the `detail` of the parsed object (empty when it has none)
ErrorBody(kind, json, detail, text) ==
  [kind |-> kind, json |-> json, detail |-> detail, text |-> text]
NoErrorBody == ErrorBody("none", FALSE, << >>, << >>)

DetailBadKey == << "B", "a", "d", " ", "k", "e", "y" >>
DetailReplicateDown == << "R", "e", "p", "l", "i", "c", "a", "t", "e", " ",
                         "d", "o", "w", "n" >>
jsonText(detail) ==
  << "{" >> \o (IF detail = << >> THEN << >>
               ELSE << "d", "e", "t", "a", "i", "l", ":" >> \o detail) \o << "}" >>

CreateErrorBodies ==
  { ErrorBody("error page", FALSE, << >>, [ i \in 1..MaxBodyLen |-> "x" ]),
    ErrorBody("json without detail", TRUE, << >>, jsonText(<< >>)),
    ErrorBody("detail: Bad key", TRUE, DetailBadKey, jsonText(DetailBadKey)),
    ErrorBody("detail: Replicate down", TRUE, DetailReplicateDown,
              jsonText(DetailReplicateDown)) }

\* String.prototype.substring(begin, end): `end` is clamped to the length
substring(s, begin, end) ==
  SubSeq(s, begin + 1, IF end < Len(s) THEN end ELSE Len(s))

\* if (e instanceof Error && e.message.includes('Replicate')) throw e
rethrown(e) == includes(e, << "R", "e", "p", "l", "i", "c", "a", "t", "e" >>)

\* the error of `if (!createRes.ok)`: what the try block throws (the detail,
\* the default message, or the SyntaxError of JSON.parse) is rethrown by the
\* catch only when its message contains 'Replicate'; otherwise the catch
\* throws the message with the first 100 characters of the body
createError(body) ==
  LET thrown == IF ~body.json
                THEN << "S", "y", "n", "t", "a", "x", "E", "r", "r", "o", "r" >>
                ELSE IF body.detail # << >> THEN body.detail
                ELSE << "R", "e", "p", "l", "i", "c", "a", "t", "e", " ", "A",
                        "P", "I" >>
  IN  IF rethrown(thrown) THEN joinChars(thrown)
      ELSE "Replicate failed: " \o joinChars(substring(body.text, 0, 100))

\* POST .../predictions with Prefer: wait
callReplicateAPI_create(reply, prediction, body) ==
  /\ variant = "worker"
  /\ pc = "call"
  /\ adapter = "callReplicateAPI"
  /\ calls' = calls \cup {"callReplicateAPI"}
  /\ (reply # "ok" => prediction = NoPrediction)
  /\ (reply = "non2xx" <=> body # NoErrorBody)
  /\ seen' = seen \cup
       (IF reply = "ok" /\ prediction.status = "succeeded" /\ prediction.output
        THEN {"create succeeded"} ELSE {}) \cup
       (IF reply = "non2xx" THEN {"create non2xx, " \o body.kind} ELSE {})
  /\ attempts' = 0
  /\ CASE reply = "throws" -> Threw("fetch failed")
       [] reply = "non2xx" -> Threw(createError(body))
       [] OTHER ->
            IF prediction.status = "succeeded" /\ prediction.output
            THEN pc' = "download" /\ UNCHANGED resp
            ELSE IF prediction.urlsGet
            THEN pc' = "poll" /\ UNCHANGED resp
            ELSE IF prediction.error
            THEN Threw("api error")
            ELSE Threw("replicate invalid response")
  /\ UNCHANGED << envVars, now, cacheVars, probeVars, req, prompt,
                  selectedModel, adapter, target, usedBackend, polls, waits,
                  lineNo, statusAge >>

\* a loop that runs once more
loopContinues_offByOne(a) == a <= maxAttempts

\* while (attempts < maxAttempts)
loopContinues(a) == a < maxAttempts

\* one turn of the loop: wait 5 s, GET urls.get, look at the status
callReplicateAPI_poll(reply, prediction) ==
  /\ variant = "worker"
  /\ pc = "poll"
  /\ loopContinues(attempts)
  /\ waits' = waits + 1
  /\ polls' = polls + 1
  /\ (reply # "ok" => prediction = NoPrediction)
  /\ prediction.urlsGet = FALSE
  /\ seen' = seen \cup
       (CASE reply # "ok" -> {"poll " \o reply}
          [] reply = "ok" /\ prediction.status = "succeeded" /\ prediction.output ->
               {"poll succeeded"}
          [] reply = "ok" /\ prediction.status = "failed" -> {"poll failed"}
          [] reply = "ok" /\ prediction.status = "succeeded" /\ ~prediction.output ->
               Detail("poll succeeded, no output")
          [] OTHER -> {})
  /\ CASE reply = "throws" -> Threw("fetch failed") /\ UNCHANGED attempts
       [] reply = "non2xx" -> Threw("replicate polling failed") /\ UNCHANGED attempts
       [] OTHER ->
            IF prediction.status = "succeeded" /\ prediction.output
            THEN pc' = "download" /\ UNCHANGED << resp, attempts >>
            ELSE IF prediction.status = "failed"
            THEN /\ Threw(IF prediction.error THEN "api error"
                          ELSE "replicate generation failed")
                 /\ UNCHANGED attempts
            ELSE /\ attempts' = attempts + 1
                 /\ IF loopContinues(attempts + 1)
                    THEN UNCHANGED << pc, resp >>
                    ELSE Threw("replicate timeout")
  /\ UNCHANGED << envVars, now, cacheVars, probeVars, req, prompt,
                  selectedModel, adapter, target, usedBackend, lineNo, calls,
                  statusAge >>

\* fetch(outputUrl): the reply is encoded whatever its status
callReplicateAPI_download(reply) ==
  /\ variant = "worker"
  /\ pc = "download"
  /\ adapter = "callReplicateAPI"
  /\ seen' = seen \cup {"download " \o reply}
  /\ IF reply = "throws"
     THEN Threw("fetch failed")
     ELSE Returned(DataUri(downloaded(reply)))
  /\ UNCHANGED << envVars, now, cacheVars, probeVars, req, prompt,
                  selectedModel, adapter, target, usedBackend, replVars,
                  lineNo, calls, statusAge >>

-----------------------------------------------------------------------------
(* Gradio adapters: POST call, GET result stream, scan of the data: lines *)

GradioAdapters == { "callGradioAPI", "callBagelTextToImageAPI",
                    "callBagelEditAPI", "callZImageAPI", "callFlux2API",
                    "callStableDiffusionHF" }

\* the body of a `data: ` line of the result stream:
\*   null          the literal null
\*   syntax        not JSON
\*   empty         JSON without an element 0 (not an array, [], [null])
\*   str data      ["data:image/...;base64,..."]
\*   str http      ["https://..."]
\*   str other     ["some/relative/file"]
\*   obj url       [{url: "https://..."}]
\*   obj path abs  [{path: "https://..."}]
\*   obj path rel  [{path: "/tmp/gradio/x.png"}]
\*   gal url       [[{image: {url: "https://..."}}]]
\*   gal path abs  [[{image: {path: "https://..."}}]]
\*   gal path rel  [[{image: {path: "/tmp/gradio/x.png"}}]]
\*   gal empty     [[]]
LineKinds == { "null", "syntax", "empty", "str data", "str http",
               "str other", "obj url", "obj path abs", "obj path rel",
               "gal url", "gal path abs", "gal path rel", "gal empty" }

Skip == [act |-> "skip", image |-> NoImage, message |-> Null, fetch |-> "none"]
Return(img, f) == [act |-> "return", image |-> img, message |-> Null, fetch |-> f]
Throw(msg, f) == [act |-> "throw", image |-> NoImage, message |-> msg, fetch |-> f]

\* fetch, `if (!imageRes.ok) throw`, encode; a thrown fetch propagates
fetchChecked(f, dl) ==
  CASE dl = "ok"     -> Return(DataUri("image"), f)
    [] dl = "non2xx" -> Throw("image fetch failed", f)
    [] dl = "throws" -> Throw("fetch failed", f)

\* fetch and encode without looking at imageRes.ok; `thrown` says what a
\* thrown fetch leads to inside the adapter's try/catch
fetchUnchecked(f, dl, thrown) ==
  IF dl = "throws" THEN thrown ELSE Return(DataUri(downloaded(dl)), f)

\* callGradioAPI: element 0 is a gallery, its first image's url || path
parseQwenLine(kind, dl) ==
  CASE kind \in {"gal url", "gal path abs"} -> fetchChecked("as given", dl)
    [] kind = "gal path rel" -> fetchChecked("space relative", dl)
    [] OTHER -> Skip

\* callBagelTextToImageAPI, callBagelEditAPI, callFlux2API: a string or
\* {url}; every exception is swallowed by `catch {}`
parseSimpleLine(kind, dl) ==
  CASE kind = "str data" -> Return(DataUri("image"), "none")
    [] kind \in {"str http", "obj url"} -> fetchUnchecked("as given", dl, Skip)
    [] OTHER -> Skip

\* callZImageAPI: the gallery form first, then the older forms; the catch
\* rethrows
parseZImageLine(kind, dl) ==
  CASE kind = "syntax" -> Throw("syntax error", "none")
    [] kind \in {"gal url", "gal path abs"} -> fetchChecked("as given", dl)
    [] kind = "gal path rel" -> fetchChecked("space file", dl)
    [] kind = "str data" -> Return(DataUri("image"), "none")
    [] kind \in {"str http", "obj url"} ->
         fetchUnchecked("as given", dl, Throw("fetch failed", "as given"))
    [] OTHER -> Skip

\* callStableDiffusionHF: a string, {url} or {path}; exceptions are logged
parseStableDiffusionLine(kind, dl) ==
  CASE kind = "str data" -> Return(DataUri("image"), "none")
    [] kind \in {"str http", "obj url", "obj path abs"} ->
         fetchUnchecked("as given", dl, Skip)
    [] kind = "obj path rel" -> fetchUnchecked("space file", dl, Skip)
    [] OTHER -> Skip

parseLine(fn, kind, dl) ==
  CASE fn = "callGradioAPI" -> parseQwenLine(kind, dl)
    [] fn = "callZImageAPI" -> parseZImageLine(kind, dl)
    [] fn = "callStableDiffusionHF" -> parseStableDiffusionLine(kind, dl)
    [] OTHER -> parseSimpleLine(kind, dl)

\* the adapters that look for `event: error` in the stream's text
checksErrorEvent(fn) ==
  fn \in { "callGradioAPI", "callZImageAPI", "callStableDiffusionHF" }

\* callStableDiffusionHF: return await callZImageAPI(prompt)
FallBackToZImage ==
  /\ adapter' = "callZImageAPI"
  /\ target' = ZIMAGE_SPACE_URL
  /\ pc' = "call"
  /\ lineNo' = 0
  /\ UNCHANGED resp

\* POST {space}/gradio_api/call/{fn}
gradio_call(reply) ==
  /\ variant = "worker"
  /\ pc = "call"
  /\ adapter \in GradioAdapters
  /\ calls' = calls \cup {adapter}
  /\ CASE reply = "ok" -> pc' = "stream" /\ UNCHANGED << resp, adapter, target, lineNo >>
       [] reply = "throws" -> Threw("fetch failed") /\ UNCHANGED << adapter, target, lineNo >>
       [] reply = "non2xx" ->
            IF adapter = "callStableDiffusionHF"
            THEN FallBackToZImage
            ELSE Threw("connection failed") /\ UNCHANGED << adapter, target, lineNo >>
  /\ UNCHANGED << envVars, now, cacheVars, probeVars, req, prompt,
                  selectedModel, usedBackend, replVars, seen, statusAge >>

\* GET {space}/gradio_api/call/{fn}/{event_id}, text(), the error marker
gradio_stream(reply, errorEvent) ==
  /\ variant = "worker"
  /\ pc = "stream"
  /\ (reply # "ok" => ~errorEvent)
  /\ seen' = seen \cup (IF errorEvent THEN {"event: error"} ELSE {})
  /\ CASE reply = "throws" -> Threw("fetch failed") /\ UNCHANGED << adapter, target, lineNo >>
       [] reply = "non2xx" ->
            IF adapter = "callStableDiffusionHF"
            THEN FallBackToZImage
            ELSE Threw("result fetch failed") /\ UNCHANGED << adapter, target, lineNo >>
       [] OTHER ->
            IF errorEvent /\ checksErrorEvent(adapter)
            THEN IF adapter = "callStableDiffusionHF"
                 THEN FallBackToZImage
                 ELSE Threw("backend exhausted") /\ UNCHANGED << adapter, target, lineNo >>
            ELSE pc' = "lines" /\ UNCHANGED << resp, adapter, target, lineNo >>
  /\ UNCHANGED << envVars, now, cacheVars, probeVars, req, prompt,
                  selectedModel, usedBackend, replVars, calls, statusAge >>

\* the next `data: ` line of the stream
gradio_line(kind, dl) ==
  /\ variant = "worker"
  /\ pc = "lines"
  /\ lineNo < MaxLines
  /\ LET r == parseLine(adapter, kind, dl) IN
       /\ (parseLine(adapter, kind, "ok").fetch = "none" => dl = "ok")
       /\ seen' = seen \cup
                  (IF kind = "null" THEN {"skipped null"} ELSE {}) \cup
                  (IF r.fetch # "none" THEN {"fetch " \o r.fetch} ELSE {}) \cup
                  (IF dl # "ok" THEN {"download " \o dl} ELSE {})
       /\ CASE r.act = "skip"   -> lineNo' = lineNo + 1 /\ UNCHANGED << pc, resp >>
            [] r.act = "return" -> Returned(r.image) /\ UNCHANGED lineNo
            [] r.act = "throw"  -> Threw(r.message) /\ UNCHANGED lineNo
  /\ UNCHANGED << envVars, now, cacheVars, probeVars, req, prompt,
                  selectedModel, adapter, target, usedBackend, replVars,
                  calls, statusAge >>

\* an adapter that asks for the stream again when it found no image
gradio_end_reissues ==
  /\ variant = "worker"
  /\ pc = "lines"
  /\ pc' = "stream"
  /\ lineNo' = 0
  /\ UNCHANGED << envVars, now, cacheVars, probeVars, req, prompt,
                  selectedModel, adapter, target, usedBackend, replVars,
                  calls, seen, statusAge, resp >>

\* the stream is read to its end and no line carried an image
gradio_end ==
  /\ variant = "worker"
  /\ pc = "lines"
  /\ IF adapter = "callStableDiffusionHF"
     THEN FallBackToZImage
     ELSE Threw("generation failed") /\ UNCHANGED << adapter, target, lineNo >>
  /\ UNCHANGED << envVars, now, cacheVars, probeVars, req, prompt,
                  selectedModel, usedBackend, replVars, calls, seen,
                  statusAge >>

-----------------------------------------------------------------------------
(* The server variant *)

SrvRequestModelIds == { Null, "qwen-image-edit", "bagel-7b-mot",
                        "z-image-turbo", "real-esrgan", "flux2-dev" }

SrvRequests == FormsOf(client, SrvRequestModelIds)

srvAfterProbe == IF prober = "generate" THEN "srvDispatch" ELSE "done"

\* checkLocalServer: replaces backendStatus when the local server answers
srv_initBackend_local(ok) ==
  /\ variant = "server"
  /\ pc = "srvProbeLocal"
  /\ probeLog' = Append(probeLog, "local")
  /\ probeRes' = [probeRes EXCEPT !.local = Answer(ok)]
  /\ IF ok
     THEN /\ backendStatus' = Status("local", "cuda", "Local GPU", TRUE, now)
          /\ lastCycleEnd' = now
          /\ pc' = srvAfterProbe
          /\ prober' = Null
     ELSE /\ pc' = "srvProbeHF"
          /\ UNCHANGED << backendStatus, lastCycleEnd, prober >>
  /\ calls' = IF prober = "generate" THEN calls \cup {"probe"} ELSE calls
  /\ UNCHANGED << envVars, now, backendStatusCache, lastCheckTime,
                  bagelBackendStatus, requestVars >>

\* checkHFSpace, else only `backendStatus.mode = 'unavailable'`
srv_initBackend_hf(ok) ==
  /\ variant = "server"
  /\ pc = "srvProbeHF"
  /\ probeLog' = Append(probeLog, "hf")
  /\ probeRes' = [probeRes EXCEPT !.hf = Answer(ok)]
  /\ backendStatus' =
       IF ok THEN Status("cloud", "cloud", "Cloud GPU", TRUE, now)
       ELSE [backendStatus EXCEPT !.mode = "unavailable"]
  /\ lastCycleEnd' = now
  /\ pc' = srvAfterProbe
  /\ prober' = Null
  /\ UNCHANGED << envVars, now, backendStatusCache, lastCheckTime,
                  bagelBackendStatus, requestVars, calls >>

srv_health ==
  /\ variant = "server"
  /\ pc = "idle"
  /\ now - backendStatus.lastCheck > CACHE_TTL_MS
  /\ startProbe("health")
  /\ pc' = "srvProbeLocal"
  /\ UNCHANGED << envVars, now, cacheVars, requestVars, calls >>

srv_status ==
  /\ variant = "server"
  /\ pc = "idle"
  /\ startProbe("status")
  /\ pc' = "srvProbeLocal"
  /\ UNCHANGED << envVars, now, cacheVars, requestVars, calls >>

\* the Qwen branch once backendStatus is known
srvRouteDefault(st) ==
  IF st.mode = "local"
  THEN Adapter("callLocalAPI", DEFAULT_PYTHON_SERVER_URL, "local")
  ELSE IF st.mode = "cloud"
  THEN Adapter("callGradioAPI", DEFAULT_HF_SPACE_URL, "qwen-cloud")
  ELSE Reject(503, "backend unavailable")

SrvDecide(d) ==
  IF d.kind = "reject"
  THEN /\ resp' = ErrorResponse(d.status, d.message)
       /\ pc' = "done"
       /\ UNCHANGED << adapter, target, usedBackend >>
  ELSE /\ adapter' = d.fn
       /\ target' = d.url
       /\ usedBackend' = d.backend
       /\ pc' = "srvCall"
       /\ UNCHANGED resp

\* formData(), `if (!prompt)`, the branch on modelId up to its first await
srv_generate_receive(r) ==
  /\ variant = "server"
  /\ pc = "idle"
  /\ req' = r
  /\ LET id == IF r.modelId # Null THEN r.modelId ELSE "qwen-image-edit" IN
     IF promptMissing(r.prompt)
     THEN /\ resp' = ErrorResponse(400, "prompt required")
          /\ pc' = "done"
          /\ UNCHANGED << prompt, adapter, target, usedBackend, probeVars,
                          statusAge >>
     ELSE
       /\ prompt' = r.prompt.text
       /\ CASE id = "bagel-7b-mot" /\ now - bagelBackendStatus.lastCheck > CACHE_TTL_MS ->
                 /\ pc' = "srvBagelProbe"
                 /\ UNCHANGED << resp, adapter, target, usedBackend, probeVars,
                                 statusAge >>
            [] id = "bagel-7b-mot" /\ now - bagelBackendStatus.lastCheck <= CACHE_TTL_MS ->
                 /\ SrvDecide(IF bagelBackendStatus.mode = "local" /\ bagelBackendStatus.modelLoaded
                              THEN Adapter("callBagelLocalAPI", "http://localhost:3002", "bagel-local")
                              ELSE Adapter(IF r.image1 THEN "callBagelEditAPI"
                                           ELSE "callBagelTextToImageAPI",
                                           BAGEL_SPACE_URL, "bagel-cloud"))
                 /\ UNCHANGED << probeVars, statusAge >>
            [] id \in {"z-image-turbo", "flux2-dev"} ->
                 /\ pc' = "srvFamilyProbe"
                 /\ UNCHANGED << resp, adapter, target, usedBackend, probeVars,
                                 statusAge >>
            [] id = "real-esrgan" ->
                 /\ SrvDecide(IF ~r.image1 THEN Reject(400, "image required")
                              ELSE Adapter("callUpscaleAPI", "http://localhost:3004", "upscale-local"))
                 /\ UNCHANGED << probeVars, statusAge >>
            [] OTHER ->
                 IF backendStatus.mode = "unavailable"
                 THEN /\ startProbe("generate")
                      /\ pc' = "srvProbeLocal"
                      /\ UNCHANGED << resp, adapter, target, usedBackend,
                                      statusAge >>
                 ELSE /\ SrvDecide(srvRouteDefault(backendStatus))
                      /\ statusAge' = now - backendStatus.lastCheck
                      /\ UNCHANGED probeVars
  /\ UNCHANGED << envVars, now, cacheVars, selectedModel, replVars, lineNo,
                  calls, seen >>

\* initBagelBackend, then the choice between the local and the cloud BAGEL
srv_initBagelBackend(ok, loaded) ==
  /\ variant = "server"
  /\ pc = "srvBagelProbe"
  /\ (~ok => ~loaded)
  /\ bagelBackendStatus' =
       IF ok /\ loaded
       THEN [mode |-> "local", modelLoaded |-> TRUE, lastCheck |-> now]
       ELSE [mode |-> "cloud", modelLoaded |-> TRUE, lastCheck |-> now]
  /\ SrvDecide(IF ok /\ loaded
               THEN Adapter("callBagelLocalAPI", "http://localhost:3002", "bagel-local")
               ELSE Adapter(IF req.image1 THEN "callBagelEditAPI"
                            ELSE "callBagelTextToImageAPI",
                            BAGEL_SPACE_URL, "bagel-cloud"))
  /\ UNCHANGED << envVars, now, backendStatusCache, lastCheckTime,
                  backendStatus, lastCycleEnd, probeVars, req, prompt,
                  selectedModel,
                  replVars, lineNo, calls, seen, statusAge >>

\* checkZImageLocalServer / checkFlux2LocalServer, then local or cloud
srv_checkFamilyLocal(localAvailable) ==
  /\ variant = "server"
  /\ pc = "srvFamilyProbe"
  /\ SrvDecide(
       IF req.modelId = "z-image-turbo"
       THEN IF localAvailable
            THEN Adapter("callZImageLocalAPI", "http://localhost:3003", "zimage-local")
            ELSE Adapter("callZImageCloudAPI", ZIMAGE_SPACE_URL, "zimage-cloud")
       ELSE IF localAvailable
            THEN Adapter("callFlux2LocalAPI", "http://localhost:3005", "flux2-local")
            ELSE Adapter("callFlux2CloudAPI", FLUX2_SPACE_URL, "flux2-cloud"))
  /\ UNCHANGED << envVars, now, cacheVars, probeVars, req, prompt,
                  selectedModel, replVars, lineNo, calls, seen, statusAge >>

\* the Qwen branch after `await initBackend()`
srv_generate_dispatch ==
  /\ variant = "server"
  /\ pc = "srvDispatch"
  /\ statusAge' = now - backendStatus.lastCheck
  /\ SrvDecide(srvRouteDefault(backendStatus))
  /\ UNCHANGED << envVars, now, cacheVars, probeVars, req, prompt,
                  selectedModel, replVars, lineNo, calls, seen >>

SrvLocalAdapters == { "callLocalAPI", "callBagelLocalAPI", "callZImageLocalAPI",
                      "callUpscaleAPI", "callFlux2LocalAPI" }

SrvOutcomes == { "throws", "datauri", "datauri of error body", "base64",
                 "absent" }

\* what the adapter can end with: the local REST adapters pass `data.image`
\* through, the Space adapters return a data: string or encode a download
srvPossible(fn, outcome) ==
  \/ outcome = "throws"
  \/ outcome = "datauri"
  \/ fn \in SrvLocalAdapters /\ outcome \in {"base64", "absent"}
  \/ fn \notin SrvLocalAdapters /\ outcome = "datauri of error body"
  \/ fn = "callGradioAPI" /\ outcome = "base64"

srvImage(outcome) ==
  CASE outcome = "datauri" -> DataUri("image")
    [] outcome = "datauri of error body" -> DataUri("error body")
    [] outcome = "base64" -> [form |-> "base64", payload |-> "image"]
    [] OTHER -> NoImage

\* the adapter call of the server, from its request to its result
srv_adapter(outcome) ==
  /\ variant = "server"
  /\ pc = "srvCall"
  /\ srvPossible(adapter, outcome)
  /\ calls' = calls \cup {adapter}
  /\ seen' = seen \cup {"adapter " \o outcome}
  /\ IF outcome = "throws"
     THEN Threw("adapter failed")
     ELSE Returned(srvImage(outcome))
  /\ UNCHANGED << envVars, now, cacheVars, probeVars, req, prompt,
                  selectedModel, adapter, target, usedBackend, replVars,
                  lineNo, statusAge >>

-----------------------------------------------------------------------------
(* Admin API: /api/auth/* and /api/admin/* of both variants *)

deployVars == << variant, client, trace, apiToken, envHfUrl, models, ui >>
generateVars == << cacheVars, probeVars, pc, req, prompt, selectedModel,
                   adapter, target, usedBackend, replVars, lineNo, calls,
                   seen, statusAge, resp >>

\* time passes, a session lifetime or a millisecond at a time; the clock
\* is looked at within MaxLateMs of a multiple of the session lifetime
admin_tick(d) ==
  /\ now + d <= SESSION_TTL * 1000 + MaxLateMs
  /\ (now + d) % (SESSION_TTL * 1000) <= MaxLateMs
  /\ now' = now + d
  /\ UNCHANGED << frame, deployVars, generateVars, adminVars >>

\* POST /api/auth/login: the right credentials store a new session under
\* the id generateSessionId returns, 32 random bytes that were not
\* generated before, and set the cookie; wrong ones are answered 401 and
\* a body that is not JSON 400
loginHandler(body, sid) ==
  /\ IF body = "right"
     THEN /\ sid \notin DOMAIN issued
          /\ sessions' = [ id \in DOMAIN sessions \cup {sid} |->
                            IF id = sid THEN now ELSE sessions[id] ]
          /\ issued' = [ id \in DOMAIN issued \cup {sid} |->
                          IF id = sid THEN now ELSE issued[id] ]
          /\ authResp' = [status |-> 200, cookie |-> sid]
     ELSE /\ authResp' = [status |-> IF body = "wrong" THEN 401 ELSE 400,
                          cookie |-> Null]
          /\ UNCHANGED << sessions, issued >>
  /\ UNCHANGED << frame, deployVars, generateVars, now, registry, loggedOut,
                  adm, admCount >>

\* a logout that leaves the session in the store
logoutHandler_keepsSession(cookie) ==
  /\ cookie \in DOMAIN sessions
  /\ loggedOut' = loggedOut \cup {cookie}
  /\ UNCHANGED << frame, deployVars, generateVars, now, registry, sessions,
                  issued, authResp, adm, admCount >>

\* POST /api/auth/logout: the session of the cookie is deleted; with a
\* cookie that names no session nothing changes
logoutHandler(cookie) ==
  /\ cookie \in DOMAIN sessions
  /\ sessions' = [ id \in DOMAIN sessions \ {cookie} |-> sessions[id] ]
  /\ loggedOut' = loggedOut \cup {cookie}
  /\ UNCHANGED << frame, deployVars, generateVars, now, registry, issued,
                  authResp, adm, admCount >>

\* server: cleanupSessions, run by a timer, removes the expired sessions
cleanupSessions ==
  /\ variant = "server"
  /\ sessions' = [ id \in { i \in DOMAIN sessions :
                              ~expired(now, sessions[i]) } |-> sessions[id] ]
  /\ UNCHANGED << frame, deployVars, generateVars, now, registry, sessionLog,
                  adm, admCount >>

\* a tab sends a request to an admin route
admin_request(h, cookie, op) ==
  /\ adm[h].pc = "idle"
  /\ admCount < MaxAdminRequests
  /\ admCount' = admCount + 1
  /\ adm' = [adm EXCEPT ![h] = [IdleRequest EXCEPT !.pc = "auth",
                                                   !.cookie = cookie,
                                                   !.afterLogout =
                                                      cookie \in loggedOut,
                                                   !.op = op]]
  /\ UNCHANGED << frame, deployVars, generateVars, now, registry, sessions,
                  sessionLog >>

\* authMiddleware: 401 without a valid session, else next()
authMiddleware(h) ==
  /\ adm[h].pc = "auth"
  /\ adm[h].op.kind # "checkSession"
  /\ LET r == validateSession(sessions, adm[h].cookie, now)
         at == IF adm[h].cookie \in DOMAIN sessions
               THEN sessions[adm[h].cookie] ELSE -1
     IN  /\ sessions' = r.store
         /\ adm' = [adm EXCEPT ![h] =
                      IF r.valid
                      THEN [@ EXCEPT !.pc = "handler", !.authAt = now,
                                     !.sessionAt = at]
                      ELSE [@ EXCEPT !.pc = "done", !.authAt = now,
                                     !.sessionAt = at, !.status = 401,
                                     !.message = "authentication required"]]
  /\ UNCHANGED << frame, deployVars, generateVars, now, registry, sessionLog,
                  admCount >>

\* GET /api/auth/check: 200 with a valid session, else 401
checkSessionHandler(h) ==
  /\ adm[h].pc = "auth"
  /\ adm[h].op.kind = "checkSession"
  /\ LET r == validateSession(sessions, adm[h].cookie, now)
         at == IF adm[h].cookie \in DOMAIN sessions
               THEN sessions[adm[h].cookie] ELSE -1
     IN  /\ sessions' = r.store
         /\ adm' = [adm EXCEPT ![h] =
                      [@ EXCEPT !.pc = "done", !.authAt = now,
                                !.sessionAt = at,
                                !.status = IF r.valid THEN 200 ELSE 401,
                                !.message = IF r.valid THEN "authenticated"
                                            ELSE "not authenticated"]]
  /\ UNCHANGED << frame, deployVars, generateVars, now, registry, sessionLog,
                  admCount >>

\* the status of a route's success
successStatus(op) == IF op.kind = "addModel" THEN 201 ELSE 200

\* worker: `await loadModelsConfig(kv)` of the operation the route calls
admin_load(h) ==
  /\ variant = "worker"
  /\ adm[h].pc = "handler"
  /\ adm' = [adm EXCEPT ![h] =
               IF adm[h].op.kind = "getAllModels"
               THEN [@ EXCEPT !.pc = "done", !.config = registry, !.read = TRUE,
                              !.status = 200]
               ELSE [@ EXCEPT !.pc = "save", !.config = registry, !.read = TRUE]]
  /\ UNCHANGED << frame, deployVars, generateVars, now, registry, sessions,
                  sessionLog, admCount >>

\* worker: the operation on the loaded config, `await saveModelsConfig(kv,
\* config)` when it did not throw, and the route's answer
admin_save(h) ==
  /\ variant = "worker"
  /\ adm[h].pc = "save"
  /\ LET r == apply(adm[h].op, adm[h].config) IN
       IF r.ok
       THEN /\ registry' = r.config
            /\ adm' = [adm EXCEPT ![h] = [@ EXCEPT !.pc = "done", !.wrote = TRUE,
                                            !.saved = r.config,
                                            !.status = successStatus(adm[h].op)]]
       ELSE /\ adm' = [adm EXCEPT ![h] = [@ EXCEPT !.pc = "done", !.status = 400,
                                            !.message = r.message]]
            /\ UNCHANGED registry
  /\ UNCHANGED << frame, deployVars, generateVars, now, sessions, sessionLog,
                  admCount >>

\* server: the route's handler reads and writes models.json synchronously
srv_admin_handler(h) ==
  /\ variant = "server"
  /\ adm[h].pc = "handler"
  /\ LET r == apply(adm[h].op, registry)
         wr == r.ok /\ adm[h].op.kind # "getAllModels"
     IN  /\ registry' = IF wr THEN r.config ELSE registry
         /\ adm' = [adm EXCEPT ![h] =
                      [@ EXCEPT !.pc = "done", !.config = registry,
                                !.read = TRUE, !.wrote = wr,
                                !.saved = IF wr THEN r.config ELSE None,
                                !.status = IF r.ok THEN successStatus(adm[h].op)
                                           ELSE 400,
                                !.message = r.message]]
  /\ UNCHANGED << frame, deployVars, generateVars, now, sessions, sessionLog,
                  admCount >>

\* the answer reached the tab
admin_finish(h) ==
  /\ adm[h].pc = "done"
  /\ adm' = [adm EXCEPT ![h] = IdleRequest]
  /\ UNCHANGED << frame, deployVars, generateVars, now, registry, sessions,
                  sessionLog, admCount >>

-----------------------------------------------------------------------------
(* Events of the App component *)

backendVars == << variant, client, trace, apiToken, envHfUrl, models, now,
                  generateVars, adminVars, frame >>

\* React renders the state that handlers outside its events left behind
ui_render ==
  /\ ui.rendered # snapshot(ui)
  /\ ui' = commit(ui)
  /\ UNCHANGED backendVars

\* the textarea's onChange; the textarea is disabled while processing
onPromptChange(text) ==
  /\ ~ui.rendered.isProcessing
  /\ ui' = commit([ui EXCEPT !.prompt = text])
  /\ UNCHANGED backendVars

\* Toolbar: onModeChange = setEditMode
onModeChange(mode) ==
  /\ ui' = commit([ui EXCEPT !.editMode = mode, !.manual = TRUE])
  /\ UNCHANGED backendVars

\* ImageCanvas: files are dropped on the dropzone, which is disabled with
\* four images or while processing; the files are read asynchronously and
\* then given to the handleAddImage of the render of the drop
onDrop(files) ==
  /\ ~(Len(ui.rendered.images) >= 4 \/ ui.rendered.isProcessing)
  /\ files <= 4
  /\ Len(ui.drops) < MaxPendingDrops
  /\ ui' = [ui EXCEPT !.drops =
              Append(@, [length |-> Len(ui.rendered.images), files |-> files])]
  /\ UNCHANGED backendVars

\* handleAddImage, called with the files of the pending drop k
handleAddImage(k) ==
  /\ k \in DOMAIN ui.drops
  /\ LET d == ui.drops[k]
         newImages == sliceTo([ i \in 1..d.files |-> TRUE ], 4 - d.length)
         totalImages == d.length + Len(newImages)
     IN  ui' = [ui EXCEPT
                  !.images = sliceTo(@ \o newImages, 4),
                  !.editMode = IF totalImages >= 2 THEN "combine"
                               ELSE IF totalImages >= 1 THEN "edit" ELSE @,
                  !.drops = SubSeq(@, 1, k - 1) \o SubSeq(@, k + 1, Len(@))]
  /\ UNCHANGED backendVars

\* handleToggleImage of the image in slot i
handleToggleImage(i) ==
  /\ i \in DOMAIN ui.rendered.images
  /\ i \in DOMAIN ui.images
  /\ ui' = commit([ui EXCEPT !.images[i] = ~@])
  /\ UNCHANGED backendVars

\* handleRemoveImage of the image in slot i
handleRemoveImage(i) ==
  /\ i \in DOMAIN ui.rendered.images
  /\ i \in DOMAIN ui.images
  /\ LET filtered == SubSeq(ui.images, 1, i - 1)
                       \o SubSeq(ui.images, i + 1, Len(ui.images))
     IN  ui' = commit([ui EXCEPT
                  !.images = filtered,
                  !.editMode = IF Len(filtered) = 0 THEN "generate"
                               ELSE IF Len(filtered) = 1 THEN "edit" ELSE @])
  /\ UNCHANGED backendVars

\* handleClearImages; the button is drawn when there is an image
handleClearImages ==
  /\ Len(ui.rendered.images) > 0
  /\ ui' = commit([ui EXCEPT !.images = << >>, !.outputImage = Null,
                             !.editMode = "generate"])
  /\ UNCHANGED backendVars

\* a click on the generate button, enabled by canGenerate: handleGenerate
\* up to its fetch, with the prompt, mode and images of its render
handleGenerate ==
  /\ canGenerate(ui.rendered.prompt, ui.rendered.isProcessing,
                 ui.rendered.editMode, enabledImageCount(ui.rendered.images))
  /\ Len(ui.fetches) < MaxFetches
  /\ ui' = commit(
       IF trim(ui.rendered.prompt) = << >>
       THEN [ui EXCEPT !.status = GenerationStatus(FALSE, 0, "enter a prompt")]
       ELSE [ui EXCEPT
               !.status = GenerationStatus(TRUE, 30, "processing"),
               !.outputImage = Null,
               !.fetches = Append(@,
                  [pc |-> "fetch", reply |-> Null,
                   prompt |-> ui.rendered.prompt,
                   mode |-> ui.rendered.editMode,
                   images |-> enabledImageCount(ui.rendered.images)])])
  /\ UNCHANGED backendVars

\* the catch of handleGenerate: the request k ended with an error
generateFailed(u, k) ==
  [u EXCEPT !.status = GenerationStatus(FALSE, 0, "error"),
            !.fetches = SubSeq(@, 1, k - 1) \o SubSeq(@, k + 1, Len(@))]

\* handleGenerate after `await fetch`: the response of request k
generate_response(k, reply) ==
  /\ k \in DOMAIN ui.fetches
  /\ ui.fetches[k].pc = "fetch"
  /\ ui' = IF reply = "rejected" THEN generateFailed(ui, k)
           ELSE IF reply \in { "error message", "error no message",
                               "error not json" }
           THEN [ui EXCEPT !.fetches[k].pc = "json", !.fetches[k].reply = reply]
           ELSE [ui EXCEPT !.fetches[k].pc = "json", !.fetches[k].reply = reply,
                           !.status = GenerationStatus(TRUE, 80, "receiving")]
  /\ UNCHANGED backendVars

\* handleGenerate after `await response.json()`: the error thrown, or
\* setOutputImage(result.image) and the status of the end
generate_json(k) ==
  /\ k \in DOMAIN ui.fetches
  /\ ui.fetches[k].pc = "json"
  /\ ui' = IF ui.fetches[k].reply \in { "ok image", "ok no image" }
           THEN [ui EXCEPT
                   !.outputImage = IF ui.fetches[k].reply = "ok image"
                                   THEN "image" ELSE Null,
                   !.status = GenerationStatus(FALSE, 100, "done"),
                   !.fetches = SubSeq(@, 1, k - 1) \o SubSeq(@, k + 1, Len(@))]
           ELSE generateFailed(ui, k)
  /\ UNCHANGED backendVars

-----------------------------------------------------------------------------
(* calculateDimensions *)

\* the table `ratios`; a key that is not in it has no entry
ratios(aspectRatio) ==
  CASE aspectRatio = "1:1"  -> << 1, 1 >>
    [] aspectRatio = "16:9" -> << 16, 9 >>
    [] aspectRatio = "9:16" -> << 9, 16 >>
    [] aspectRatio = "4:3"  -> << 4, 3 >>
    [] aspectRatio = "3:4"  -> << 3, 4 >>
    [] aspectRatio = "3:2"  -> << 3, 2 >>
    [] aspectRatio = "2:3"  -> << 2, 3 >>
    [] OTHER -> None

\* a rounding that drops the fraction
MathRound_floor(a, b) == a \div b

\* Math.round(a / b) of a non-negative quotient: halves go up
MathRound(a, b) == (2 * a + b) \div (2 * b)

calculateDimensions(aspectRatio, baseSize) ==
  LET r == IF ratios(aspectRatio) # None THEN ratios(aspectRatio) ELSE << 1, 1 >>
      w == r[1]
      h == r[2]
  IN  IF w >= h
      THEN [width |-> baseSize, height |-> MathRound(baseSize * h, w)]
      ELSE [width |-> MathRound(baseSize * w, h), height |-> baseSize]

\* the keys of the UI's selector, and keys the table does not have
AspectRatios == { "1:1", "16:9", "9:16", "4:3", "3:4", "3:2", "2:3",
                  "21:9", "" }

\* the resolutions of the UI's selector and the small sizes
BaseSizes == { 512, 768, 1024, 2048 } \cup 1..MaxBaseSize

\* a caller computes the dimensions of a request
calculateDimensions_call(aspectRatio, baseSize) ==
  /\ frame' = [ fn |-> "calculateDimensions", done |-> TRUE,
                aspectRatio |-> aspectRatio, baseSize |-> baseSize,
                result |-> calculateDimensions(aspectRatio, baseSize) ]
  /\ UNCHANGED << deployVars, adminVars, generateVars, now >>

\* the helper returns to its caller
helper_return ==
  /\ frame # None
  /\ frame.done
  /\ frame' = None
  /\ UNCHANGED << deployVars, adminVars, generateVars, now >>

-----------------------------------------------------------------------------
(* arrayBufferToBase64 *)

\* const chunkSize = 0x8000
chunkSize == 32768

\* the contents of a test buffer: the byte at position k (from 1)
byteAt(k, seed) == (k + 3 * (k \div 256) + seed) % 256

\* the small buffers are filled in three ways, the large ones in one
Seeds(n) == IF n <= MaxSmallLen THEN { 0, 101, 255 } ELSE { 101 }

\* the lengths the loop treats differently, and the small ones
BufferLengths ==
  0..MaxSmallLen \cup
  { chunkSize - 1, chunkSize, chunkSize + 1, 2 * chunkSize, 2 * chunkSize + 1 }

\* a view that loses the byte before `end`
subarray_dropsLast(bytes, begin, end) ==
  SubSeq(bytes, begin + 1, (IF end < Len(bytes) THEN end ELSE Len(bytes)) - 1)

\* bytes.subarray(begin, end): positions from 0, `end` excluded and clamped
subarray(bytes, begin, end) ==
  SubSeq(bytes, begin + 1, IF end < Len(bytes) THEN end ELSE Len(bytes))

\* String.fromCharCode.apply(null, chunk): one character per byte
fromCharCode(chunk) == [ k \in DOMAIN chunk |-> [char |-> chunk[k]] ]

DigitChars == << "0", "1", "2", "3", "4", "5", "6", "7", "8", "9" >>
Base64Alphabet == UpperCase \o LowerCase \o DigitChars \o << "+", "/" >>

\* btoa: three characters give four symbols, the last group is padded
btoa(binary) ==
  LET n == Len(binary)
      code(k) == IF k <= n THEN binary[k].char ELSE 0
      symbol(g, p) ==
        LET b0 == code(3 * g - 2)
            b1 == code(3 * g - 1)
            b2 == code(3 * g)
        IN  CASE p = 0 -> Base64Alphabet[b0 \div 4 + 1]
              [] p = 1 -> Base64Alphabet[(b0 % 4) * 16 + b1 \div 16 + 1]
              [] p = 2 -> IF 3 * g - 1 > n THEN "="
                          ELSE Base64Alphabet[(b1 % 16) * 4 + b2 \div 64 + 1]
              [] OTHER -> IF 3 * g > n THEN "="
                          ELSE Base64Alphabet[(b2 % 64) + 1]
  IN  [ k \in 1..(4 * ((n + 2) \div 3)) |-> symbol((k + 3) \div 4, (k - 1) % 4) ]

\* const bytes = new Uint8Array(buffer); let binary = ''
arrayBufferToBase64_call(n, seed) ==
  /\ frame = None
  /\ frame' = [ fn |-> "arrayBufferToBase64", done |-> FALSE,
                bytes |-> [ k \in 1..n |-> byteAt(k, seed) ],
                i |-> 0, binary |-> << >>, chunks |-> << >>, result |-> << >> ]
  /\ UNCHANGED << deployVars, adminVars, generateVars, now >>

\* one turn of the loop: the chunk at i is appended to `binary`
arrayBufferToBase64_chunk ==
  /\ frame # None
  /\ frame.fn = "arrayBufferToBase64"
  /\ ~frame.done
  /\ frame.i < Len(frame.bytes)
  /\ LET chunk == subarray(frame.bytes, frame.i, frame.i + chunkSize) IN
       frame' = [frame EXCEPT !.binary = @ \o fromCharCode(chunk),
                              !.chunks = Append(@, Len(chunk)),
                              !.i = @ + chunkSize]
  /\ UNCHANGED << deployVars, adminVars, generateVars, now >>

\* return btoa(binary)
arrayBufferToBase64_btoa ==
  /\ frame # None
  /\ frame.fn = "arrayBufferToBase64"
  /\ ~frame.done
  /\ frame.i >= Len(frame.bytes)
  /\ frame' = [frame EXCEPT !.result = btoa(frame.binary), !.done = TRUE]
  /\ UNCHANGED << deployVars, adminVars, generateVars, now >>

-----------------------------------------------------------------------------
(* Specification *)

Next ==
  \/ Tick
  \/ \E ok \in BOOLEAN : initBackend_local(ok)
  \/ \E ok \in BOOLEAN : initBackend_replicate(ok)
  \/ \E ok \in BOOLEAN : initBackend_hf(ok)
  \/ health
  \/ status
  \/ \E r \in Requests : generate_receive(r)
  \/ generate_getModel
  \/ \E reply \in TranslationReplies : generate_translate(reply)
  \/ generate_route
  \/ generate_dispatch
  \/ \E reply \in LocalReplies : callLocalAPI(reply)
  \/ \E reply \in HttpReplies, p \in Predictions,
          body \in CreateErrorBodies \cup {NoErrorBody} :
       callReplicateAPI_create(reply, p, body)
  \/ \E reply \in HttpReplies, p \in Predictions : callReplicateAPI_poll(reply, p)
  \/ \E reply \in DownloadReplies : callReplicateAPI_download(reply)
  \/ \E reply \in HttpReplies : gradio_call(reply)
  \/ \E reply \in HttpReplies, e \in BOOLEAN : gradio_stream(reply, e)
  \/ \E kind \in LineKinds, dl \in DownloadReplies : gradio_line(kind, dl)
  \/ gradio_end
  \/ finish
  \/ \E ok \in BOOLEAN : srv_initBackend_local(ok)
  \/ \E ok \in BOOLEAN : srv_initBackend_hf(ok)
  \/ srv_health
  \/ srv_status
  \/ \E r \in SrvRequests : srv_generate_receive(r)
  \/ \E ok \in BOOLEAN, loaded \in BOOLEAN : srv_initBagelBackend(ok, loaded)
  \/ \E ok \in BOOLEAN : srv_checkFamilyLocal(ok)
  \/ srv_generate_dispatch
  \/ \E o \in SrvOutcomes : srv_adapter(o)

Spec == Init /\ [][Next]_vars

SpecApi == InitApi /\ [][Next]_vars

SpecToken == InitToken /\ [][Next]_vars

SpecJa == InitJa /\ [][Next]_vars

\* a handler that has started goes on: each outbound call it awaits returns
\* or throws, and the runtime resumes the handler
handlerStep == pc \notin { "idle", "done" } /\ Next

SpecLive == InitLive /\ [][Next]_vars /\ WF_vars(handlerStep)

\* the registry under the requests of two tabs
NextRegistry ==
  \/ \E h \in AdminTabs, cookie \in Cookies, op \in AdminOps :
       admin_request(h, cookie, op)
  \/ \E h \in AdminTabs : authMiddleware(h)
  \/ \E h \in AdminTabs : admin_load(h)
  \/ \E h \in AdminTabs : admin_save(h)
  \/ \E h \in AdminTabs : srv_admin_handler(h)
  \/ \E h \in AdminTabs : admin_finish(h)

SpecRegistry == InitRegistry /\ [][NextRegistry]_vars

\* the settings under the requests of two tabs
NextSettings ==
  \/ \E h \in AdminTabs, op \in SettingsOps : admin_request(h, "s1", op)
  \/ \E h \in AdminTabs : authMiddleware(h)
  \/ \E h \in AdminTabs : admin_load(h)
  \/ \E h \in AdminTabs : admin_save(h)
  \/ \E h \in AdminTabs : srv_admin_handler(h)
  \/ \E h \in AdminTabs : admin_finish(h)

SpecSettings == InitRegistry /\ [][NextSettings]_vars

\* sessions over time, under a read and a write of the registry
NextAuth ==
  \/ \E d \in { SESSION_TTL * 1000, 1 } : admin_tick(d)
  \/ \E body \in { "right", "wrong" }, sid \in SessionIds :
       loginHandler(body, sid)
  \/ \E cookie \in Cookies : logoutHandler(cookie)
  \/ \E h \in AdminTabs, cookie \in Cookies, op \in AuthOps :
       admin_request(h, cookie, op)
  \/ \E h \in AdminTabs : authMiddleware(h)
  \/ \E h \in AdminTabs : admin_load(h)
  \/ \E h \in AdminTabs : admin_save(h)
  \/ \E h \in AdminTabs : srv_admin_handler(h)
  \/ \E h \in AdminTabs : admin_finish(h)

SpecAuth == InitAuth /\ [][NextAuth]_vars

\* a second browser's session, and the cookies of both
OtherSessionIds == { "s2" }
SessionCookies == Cookies \cup OtherSessionIds

\* the requests whose answer is the session's validity
SessionOps ==
  { Op("checkSession", Null, << >>, NoBody),
    Op("getAllModels", Null, << >>, NoBody) }

\* two browsers log in and out while one tab presents their cookies
NextSession ==
  \/ \E d \in { SESSION_TTL * 1000, 1 } : admin_tick(d)
  \/ \E body \in { "right", "wrong", "notjson" },
        sid \in SessionIds \cup OtherSessionIds : loginHandler(body, sid)
  \/ \E cookie \in SessionCookies : logoutHandler(cookie)
  \/ cleanupSessions
  \/ \E cookie \in SessionCookies, op \in SessionOps :
       admin_request("tab1", cookie, op)
  \/ authMiddleware("tab1")
  \/ checkSessionHandler("tab1")
  \/ admin_load("tab1")
  \/ srv_admin_handler("tab1")
  \/ admin_finish("tab1")

SpecSession == InitAuth /\ [][NextSession]_vars

\* the image list under drops, toggles, removals and clears
NextImages ==
  \/ ui_render
  \/ \E mode \in Modes : onModeChange(mode)
  \/ \E files \in 1..MaxDropFiles : onDrop(files)
  \/ \E k \in 1..MaxPendingDrops : handleAddImage(k)
  \/ \E i \in 1..4 : handleToggleImage(i)
  \/ \E i \in 1..4 : handleRemoveImage(i)
  \/ handleClearImages

SpecImages == InitHelper /\ [][NextImages]_vars

\* the generate button under every event of the page
NextGenerate ==
  \/ ui_render
  \/ \E mode \in Modes : onModeChange(mode)
  \/ Len(ui.rendered.images) < MaxGenerateImages /\ onDrop(1)
  \/ \E k \in 1..MaxPendingDrops : handleAddImage(k)
  \/ \E i \in 1..4 : handleToggleImage(i)
  \/ \E i \in 1..4 : handleRemoveImage(i)
  \/ handleClearImages
  \/ \E text \in UiPrompts : onPromptChange(text)
  \/ handleGenerate
  \/ \E k \in 1..MaxFetches, reply \in GenerateReplies :
       generate_response(k, reply)
  \/ \E k \in 1..MaxFetches : generate_json(k)

SpecGenerate == InitHelper /\ [][NextGenerate]_vars

\* calculateDimensions on every key and size
NextDimensions ==
  \/ \E a \in AspectRatios, b \in BaseSizes : calculateDimensions_call(a, b)
  \/ helper_return

SpecDimensions == InitHelper /\ [][NextDimensions]_vars

\* arrayBufferToBase64 on buffers around the chunk size
NextBase64 ==
  \/ \E n \in BufferLengths : \E seed \in Seeds(n) :
       arrayBufferToBase64_call(n, seed)
  \/ arrayBufferToBase64_chunk
  \/ arrayBufferToBase64_btoa
  \/ helper_return

SpecBase64 == InitHelper /\ [][NextBase64]_vars

-----------------------------------------------------------------------------
(* Properties *)

\* C1: in the worker a request whose effective model id is bagel-7b-mot,
\* z-image-turbo or flux2-dev goes to that family's own adapter whatever the
\* cached status is: no probe runs for it, no other adapter is called, and
\* it is never answered 503.
C1_SpecialFamiliesBypassHealth ==
  LET id == activeModelId(selectedModel, req.modelId)
      given == req.prompt.given /\ req.prompt.text # << >>
      own == CASE id = "bagel-7b-mot" ->
                    { IF req.image1 THEN "callBagelEditAPI"
                      ELSE "callBagelTextToImageAPI" }
               [] id = "z-image-turbo" -> { "callZImageAPI" }
               [] id = "flux2-dev" -> { "callFlux2API" }
               [] OTHER -> {}
  IN (variant = "worker" /\ given
        /\ id \in { "bagel-7b-mot", "z-image-turbo", "flux2-dev" }) =>
       /\ pc \in { "getModel", "translate", "route", "call", "stream",
                   "lines", "done" }
       /\ prober = Null
       /\ probeLog = << >>
       /\ calls \subseteq own \cup { "getModel", "translate" }
       /\ pc \in { "call", "stream", "lines", "done" } => adapter \in own
       /\ pc = "done" => calls \cap own # {}
       /\ resp # None => resp.status # 503

\* a flux2-dev request served while the cached status says unavailable
C1_ServedWhileUnavailable ==
  /\ variant = "worker"
  /\ pc = "done"
  /\ resp # None
  /\ resp.status = 200
  /\ req.modelId = "flux2-dev"
  /\ "callFlux2API" \in calls
  /\ backendStatusCache # None
  /\ backendStatusCache.mode = "unavailable"

\* C2: a default-family request whose backend status is still unavailable
\* after the dispatcher's probe is answered with a 503 error envelope, and
\* no adapter is invoked for it (both backends).
C2_UnavailableAnswers503 ==
  LET given == req.prompt.given /\ req.prompt.text # << >>
      default ==
        IF variant = "worker"
        THEN activeModelId(selectedModel, req.modelId) \notin
               { "bagel-7b-mot", "z-image-turbo", "flux2-dev" }
        ELSE req.modelId \notin
               { "bagel-7b-mot", "z-image-turbo", "real-esrgan", "flux2-dev" }
      stillUnavailable ==
        IF variant = "worker"
        THEN backendStatusCache = None \/ backendStatusCache.mode = "unavailable"
        ELSE backendStatus.mode = "unavailable"
      routed == pc \in { "call", "stream", "lines", "poll", "download",
                         "srvCall", "done" }
  IN (given /\ default /\ stillUnavailable /\ routed) =>
       /\ pc = "done"
       /\ resp = ErrorResponse(503, "backend unavailable")
       /\ "probe" \in calls
       /\ calls \subseteq { "getModel", "translate", "probe" }
       /\ adapter = Null

\* the worker answered 503 after a probe cycle in which everything failed
C2_Answered503 ==
  /\ variant = "worker"
  /\ pc = "done"
  /\ resp # None
  /\ resp.status = 503
  /\ "probe" \in calls
  /\ probeLog = << "local", "replicate", "hf" >>

\* C3 (as amended): for a default-family request of the worker the
\* dispatcher decides by the first row that applies: mode local -> local
\* adapter; cloud model type or huggingface-cloud -> Gradio adapter at the
\* model's source URL (else the configured/default Space URL); probed
\* backend replicate and model stable-diffusion-v1-5 -> Stable-Diffusion
\* Space adapter; probed backend replicate and no image -> 400, no adapter;
\* probed backend replicate otherwise -> Replicate adapter; otherwise ->
\* Gradio adapter at the configured/default Space URL.
C3_RoutingTable ==
  LET id == activeModelId(selectedModel, req.modelId)
      given == req.prompt.given /\ req.prompt.text # << >>
      cache == backendStatusCache
      before == { "getModel", "translate", "probe" }
      chosen == pc = "call" /\ calls \subseteq before
      refused == pc = "done" /\ resp # None /\ calls \subseteq before
      cloudModel == \/ selectedModel # None /\ selectedModel.type = "cloud"
                    \/ id = "huggingface-cloud"
      spaceUrl == IF envHfUrl # Null THEN envHfUrl ELSE DEFAULT_HF_SPACE_URL
  IN (/\ variant = "worker"
      /\ given
      /\ id \notin { "bagel-7b-mot", "z-image-turbo", "flux2-dev" }
      /\ cache # None
      /\ cache.mode # "unavailable"
      /\ (chosen \/ refused)) =>
       CASE cache.mode = "local" ->
              chosen /\ adapter = "callLocalAPI"
         [] cache.mode # "local" /\ cloudModel ->
              /\ chosen
              /\ adapter = "callGradioAPI"
              /\ target = IF selectedModel # None /\ selectedModel.source # ""
                          THEN selectedModel.source ELSE spaceUrl
         [] cache.mode # "local" /\ ~cloudModel /\ cache.backend = "replicate"
              /\ id = "stable-diffusion-v1-5" ->
              /\ chosen
              /\ adapter = "callStableDiffusionHF"
              /\ target = SD_SPACE_URL
         [] cache.mode # "local" /\ ~cloudModel /\ cache.backend = "replicate"
              /\ id # "stable-diffusion-v1-5" /\ ~req.image1 /\ ~req.image2 ->
              /\ refused
              /\ resp.status = 400
              /\ resp.error
         [] cache.mode # "local" /\ ~cloudModel /\ cache.backend = "replicate"
              /\ id # "stable-diffusion-v1-5" /\ (req.image1 \/ req.image2) ->
              chosen /\ adapter = "callReplicateAPI"
         [] OTHER ->
              chosen /\ adapter = "callGradioAPI" /\ target = spaceUrl

\* a cloud-type model goes to its own Space although Replicate was probed
C3_CloudModelBeforeReplicate ==
  /\ variant = "worker"
  /\ pc = "call"
  /\ calls \subseteq { "getModel", "translate", "probe" }
  /\ adapter = "callGradioAPI"
  /\ target = "https://my-cloud.hf.space"
  /\ backendStatusCache # None
  /\ backendStatusCache.backend = "replicate"

\* C3 as stated: the table of four rows (local; cloud model -> Gradio at
\* the model's source; probed backend replicate -> Replicate adapter;
\* otherwise Gradio at the default Space) gives the adapter of every
\* default-family request with a usable status.
C3_FourRowTable ==
  LET id == activeModelId(selectedModel, req.modelId)
      given == req.prompt.given /\ req.prompt.text # << >>
      cache == backendStatusCache
      before == { "getModel", "translate", "probe" }
      chosen == pc = "call" /\ calls \subseteq before
      refused == pc = "done" /\ resp # None /\ calls \subseteq before
      cloudModel == \/ selectedModel # None /\ selectedModel.type = "cloud"
                    \/ id = "huggingface-cloud"
      spaceUrl == IF envHfUrl # Null THEN envHfUrl ELSE DEFAULT_HF_SPACE_URL
  IN (/\ variant = "worker"
      /\ given
      /\ id \notin { "bagel-7b-mot", "z-image-turbo", "flux2-dev" }
      /\ cache # None
      /\ cache.mode # "unavailable"
      /\ (chosen \/ refused)) =>
       CASE cache.mode = "local" ->
              chosen /\ adapter = "callLocalAPI"
         [] cache.mode # "local" /\ cloudModel ->
              /\ chosen
              /\ adapter = "callGradioAPI"
              /\ target = IF selectedModel # None /\ selectedModel.source # ""
                          THEN selectedModel.source ELSE spaceUrl
         [] cache.mode # "local" /\ ~cloudModel /\ cache.backend = "replicate" ->
              chosen /\ adapter = "callReplicateAPI"
         [] OTHER ->
              chosen /\ adapter = "callGradioAPI" /\ target = spaceUrl

\* C4: with the probed backend replicate and the model
\* stable-diffusion-v1-5 (not of type cloud) the request goes to the
\* Stable-Diffusion Space adapter, and no Replicate create-prediction call is
\* issued for it.
C4_StableDiffusionAvoidsReplicate ==
  LET id == activeModelId(selectedModel, req.modelId)
      given == req.prompt.given /\ req.prompt.text # << >>
  IN (/\ variant = "worker"
      /\ given
      /\ id = "stable-diffusion-v1-5"
      /\ (selectedModel = None \/ selectedModel.type # "cloud")
      /\ backendStatusCache # None
      /\ backendStatusCache.mode = "cloud"
      /\ backendStatusCache.backend = "replicate"
      /\ pc \in { "call", "stream", "lines", "poll", "download", "done" }) =>
       /\ "callReplicateAPI" \notin calls
       /\ adapter # "callReplicateAPI"
       /\ pc \notin { "poll", "download" }
       /\ polls = 0
       /\ \/ "callStableDiffusionHF" \in calls
          \/ pc = "call" /\ adapter = "callStableDiffusionHF"
                         /\ target = SD_SPACE_URL

\* a stable-diffusion-v1-5 request with an image served while Replicate is
\* the probed backend
C4_Redirected ==
  /\ variant = "worker"
  /\ pc = "done"
  /\ resp # None
  /\ resp.status = 200
  /\ req.modelId = "stable-diffusion-v1-5"
  /\ req.image1
  /\ "callStableDiffusionHF" \in calls
  /\ backendStatusCache # None
  /\ backendStatusCache.backend = "replicate"

\* C5 as stated: a default-family request is routed on a status that is at
\* most 30 seconds old (a stale one is re-probed first); statusAge is the
\* age of the status at the moment the adapter was chosen.
C5_RoutedOnFreshStatus == statusAge <= CACHE_TTL_MS

\* C6: a probe cycle of the worker asks the local server, then Replicate,
\* then the Space, in that order, and stops at the first OK answer; the
\* cached result is local iff local answered OK, cloud/replicate iff local
\* failed, a token is configured and Replicate answered OK,
\* cloud/huggingface iff both earlier probes failed and the Space answered
\* OK, unavailable iff all failed.
C6_ProbeOrder ==
  LET cache == backendStatusCache
      l == probeRes.local
      r == probeRes.replicate
      h == probeRes.hf
      order == IF apiToken THEN << "local", "replicate", "hf" >>
               ELSE << "local", "hf" >>
      complete == prober = Null /\ probeLog # << >>
  IN variant = "worker" =>
       /\ Len(probeLog) <= Len(order)
       /\ \A i \in 1..Len(probeLog) : probeLog[i] = order[i]
       /\ l = "ok" => r = "none" /\ h = "none"
       /\ r = "ok" => l = "fail" /\ h = "none"
       /\ r # "none" => apiToken /\ l = "fail"
       /\ h # "none" => l = "fail" /\ r # "ok" /\ (apiToken => r = "fail")
       /\ complete =>
            /\ cache # None
            /\ cache.lastCheck = lastCheckTime
            /\ cache.mode = "local" <=> l = "ok"
            /\ (cache.mode = "cloud" /\ cache.backend = "replicate") <=>
                 (l = "fail" /\ apiToken /\ r = "ok")
            /\ (cache.mode = "cloud" /\ cache.backend = "huggingface") <=>
                 (l = "fail" /\ r # "ok" /\ h = "ok")
            /\ cache.mode = "unavailable" <=>
                 (l = "fail" /\ r # "ok" /\ h = "fail")
            /\ cache.mode \in { "local", "cloud", "unavailable" }

\* a cycle that asked all three and ended on the Space
C6_ThirdProbeAnswered ==
  /\ variant = "worker"
  /\ prober = Null
  /\ probeLog = << "local", "replicate", "hf" >>
  /\ probeRes = [local |-> "fail", replicate |-> "fail", hf |-> "ok"]
  /\ backendStatusCache.backend = "huggingface"

\* C7 as stated: a request with mode edit and no image, or mode combine and
\* fewer than two images, is answered 400 before any adapter, probe or
\* external backend is invoked.
C7_ModeNeedsImages ==
  LET n == (IF req.image1 THEN 1 ELSE 0) + (IF req.image2 THEN 1 ELSE 0)
      short == \/ req.mode = "edit" /\ n = 0
               \/ req.mode = "combine" /\ n < 2
  IN short =>
       /\ calls \subseteq { "getModel", "translate" }
       /\ resp # None => resp.error /\ resp.status = 400

\* C8: a request with a missing or empty prompt is answered with a 400 error
\* envelope, and nothing was called before that answer: no translation, no
\* probe, no registry read, no adapter (both backends).
C8_MissingPromptRejectedFirst ==
  LET missing == ~req.prompt.given \/ req.prompt.text = << >>
  IN /\ (missing /\ resp # None) =>
          /\ pc = "done"
          /\ resp = ErrorResponse(400, "prompt required")
          /\ calls = {}
          /\ probeLog = << >>
          /\ adapter = Null
          /\ selectedModel = None
     /\ missing =>
          \/ pc = "idle"
          \/ pc = "done"
          \/ prober \in { "health", "status", "startup" }

\* an empty prompt sent with a model id and an image, answered 400
C8_EmptyPromptRejected ==
  /\ pc = "done"
  /\ resp # None
  /\ resp.status = 400
  /\ req.prompt = Text(<< >>)
  /\ req.modelId = "z-image-turbo"
  /\ req.image1

\* C9 as stated: every response is an error envelope with a non-2xx status,
\* or a success whose image is a complete data URI of a successfully
\* produced image.
C9_EnvelopeOrCompleteImage ==
  resp # None =>
    \/ resp.error /\ resp.status \notin 200..299 /\ resp.message # Null
    \/ ~resp.error /\ resp.status = 200 /\ resp.image = DataUri("image")

C11_NoPollAfterSucceeded ==
  /\ [](waits = polls)
  /\ []("create succeeded" \in seen => polls = 0 /\ waits = 0)
  /\ []("poll succeeded" \in seen => polls = attempts + 1)
  /\ [][ (seen \cap { "poll succeeded", "poll succeeded, no output" } # {})
            => polls' \in { polls, 0 } ]_vars

\* C12 as stated: whichever Gradio adapter read the stream (Qwen, BAGEL
\* text-to-image, BAGEL edit, Z-Image, FLUX.2, Stable Diffusion Space), a
\* stream containing `event: error` ends the request with the
\* backend-exhausted error, never the generic generation failure and never
\* an image.
C12_ErrorEventRaisesExhausted ==
  (pc = "done" /\ "event: error" \in seen) =>
    /\ resp.error
    /\ resp.message = "backend exhausted"

\* C13: once the worker's handler is past the translation step of an
\* accepted request, the translation endpoint was called (once, by the one
\* step that calls it) exactly when the submitted prompt has a Hiragana,
\* Katakana or CJK character; when that call failed (non-2xx, a
\* responseStatus other than 200, no translated text, or a throw) the prompt
\* forwarded is the submitted prompt unchanged, and the request went on to
\* routing: it is still in flight, or it ended in an adapter or in a
\* rejection of the routing step, never in an error of the translation.
C13_TranslationFailureKeepsPrompt ==
  LET text == req.prompt.text
      japanese == \E i \in 1..Len(text) :
                    text[i] \in { "hiragana", "katakana", "cjk" }
      past == /\ variant = "worker"
              /\ req.prompt.given /\ text # << >>
              /\ pc \notin { "idle", "getModel", "translate" }
  IN  /\ past => ("translate" \in calls <=> japanese)
      /\ "translation failed" \in seen =>
            /\ past /\ japanese
            /\ prompt = text
            /\ pc = "done" =>
                  \/ adapter # Null
                  \/ resp.status \in { 400, 503 } /\ calls \cap { "callLocalAPI",
                       "callReplicateAPI", "callGradioAPI" } = {}
      /\ (past /\ japanese /\ "translation failed" \notin seen) =>
            /\ Len(prompt) = Len(text)
            /\ \A i \in 1..Len(prompt) : prompt[i] = "latin"

\* a Katakana prompt whose translation failed reached the Z-Image adapter
\* unchanged
C13_UntranslatedPromptDispatched ==
  /\ "translation failed" \in seen
  /\ req.prompt.text = << "katakana" >>
  /\ prompt = << "katakana" >>
  /\ adapter = "callZImageAPI"
  /\ pc = "done"
  /\ ~resp.error

\* C14: the stored registry never has more than one model with isDefault
\* = true, whatever addModel, updateModel, deleteModel and updateSettings
\* calls ran, in either variant; the registry an addModel or updateModel
\* with isDefault: true wrote has that model as its only default.
C14_AtMostOneDefault ==
  LET defaults(ms) == { i \in DOMAIN ms : ms[i].isDefault }
  IN  /\ Cardinality(defaults(registry.models)) <= 1
      /\ \A h \in AdminTabs :
           LET a == adm[h]
               id == CASE a.op.kind = "updateModel" -> a.op.id
                       [] a.op.name = << "M", "y", " ", "C", "l", "o", "u", "d" >> -> "my-cloud"
                       [] OTHER -> "flux2-dev"
           IN  (/\ a.wrote
                /\ a.op.kind \in { "addModel", "updateModel" }
                /\ a.op.body.isDefault = "true") =>
                 /\ Cardinality(defaults(a.saved.models)) = 1
                 /\ \A i \in defaults(a.saved.models) : a.saved.models[i].id = id

\* the worker stored a new model as the default and the model that was the
\* default before is no longer one
C14_NewDefaultReplacesOld ==
  /\ variant = "worker"
  /\ \E i \in DOMAIN registry.models :
       registry.models[i].id = "my-cloud" /\ registry.models[i].isDefault
  /\ \E i \in DOMAIN registry.models :
       registry.models[i].id = "huggingface-cloud" /\ ~registry.models[i].isDefault
  /\ \E h \in AdminTabs : adm[h].wrote /\ adm[h].op.kind = "addModel"

C16_MutationsSerialized ==
  (/\ variant = "worker"
   /\ admCount = 2
   /\ \A h \in AdminTabs : adm[h].pc = "done" /\ adm[h].wrote) =>
    \E h \in AdminTabs : \E g \in AdminTabs \ {h} :
      LET first == apply(adm[h].op, defaultRegistry)
          second == apply(adm[g].op, first.config)
      IN  first.ok /\ second.ok /\ registry = second.config

\* C17: an admin request gets past the middleware (its handler runs, the
\* registry is read or written for it, or it is answered with anything but
\* 401) only if its cookie named a session that was in the store and not
\* older than 24 hours when the middleware looked; any other request is
\* answered 401 and nothing is read or written for it.
C17_AdminNeedsValidSession ==
  \A h \in AdminTabs :
    LET a == adm[h]
        valid == /\ a.cookie # Null
                 /\ a.sessionAt >= 0
                 /\ a.authAt - a.sessionAt <= 86400000
        ran == \/ a.pc \in { "handler", "save" }
               \/ a.read \/ a.wrote \/ a.config # None
               \/ a.pc = "done" /\ a.status # 401
    IN  /\ ran => valid
        /\ (a.pc = "done" /\ ~valid) =>
              a.status = 401 /\ ~a.read /\ ~a.wrote /\ a.saved = None

\* a request whose session is one millisecond older than 24 hours is
\* answered 401, the session is removed, and nothing was read for it
C17_ExpiredSessionRejected ==
  \E h \in AdminTabs :
    /\ adm[h].pc = "done"
    /\ adm[h].cookie = "s1"
    /\ adm[h].sessionAt = 0
    /\ adm[h].authAt = 86400001
    /\ adm[h].status = 401
    /\ ~adm[h].read
    /\ "s1" \notin DOMAIN sessions

C19_ChunksRebuildBuffer ==
  (frame # None /\ frame.fn = "arrayBufferToBase64") =>
    LET n == Len(frame.bytes)
        fed == IF frame.i < n THEN frame.i ELSE n
        m == Len(frame.chunks)
        symbols == << "A", "B", "C", "D", "E", "F", "G", "H", "I", "J", "K",
                     "L", "M", "N", "O", "P", "Q", "R", "S", "T", "U", "V",
                     "W", "X", "Y", "Z", "a", "b", "c", "d", "e", "f", "g",
                     "h", "i", "j", "k", "l", "m", "n", "o", "p", "q", "r",
                     "s", "t", "u", "v", "w", "x", "y", "z", "0", "1", "2",
                     "3", "4", "5", "6", "7", "8", "9", "+", "/" >>
        value == [ c \in { symbols[v] : v \in 1..64 } |->
                     (CHOOSE v \in 1..64 : symbols[v] = c) - 1 ]
        sextet(k) == IF frame.result[k] = "=" THEN 0 ELSE value[frame.result[k]]
        decoded(k) ==
          LET g == (k + 2) \div 3
              q == 4 * g - 3
          IN  CASE k % 3 = 1 -> sextet(q) * 4 + sextet(q + 1) \div 16
                [] k % 3 = 2 -> (sextet(q + 1) % 16) * 16 + sextet(q + 2) \div 4
                [] OTHER -> (sextet(q + 2) % 4) * 64 + sextet(q + 3)
        padding == { k \in DOMAIN frame.result : frame.result[k] = "=" }
    IN  /\ Len(frame.binary) = fed
        /\ \A k \in 1..fed : frame.binary[k] = [char |-> frame.bytes[k]]
        /\ m = (fed + 32767) \div 32768
        /\ \A j \in 1..m :
             frame.chunks[j] = IF j < m \/ fed % 32768 = 0 THEN 32768
                               ELSE fed % 32768
        /\ frame.done =>
             /\ fed = n
             /\ Len(frame.result) = 4 * ((n + 2) \div 3)
             /\ Cardinality(padding) = (3 - (n % 3)) % 3
             /\ \A k \in padding : k > Len(frame.result) - 2
             /\ \A k \in 1..n : decoded(k) = frame.bytes[k]

\* a buffer of 32769 bytes went through a full chunk and a chunk of one
\* byte and was encoded
C19_OneByteOverChunk ==
  /\ frame # None
  /\ frame.fn = "arrayBufferToBase64"
  /\ frame.done
  /\ Len(frame.bytes) = 32769
  /\ frame.chunks = << 32768, 1 >>
  /\ Len(frame.result) = 43692

\* C20 as stated: a non-2xx create answer whose body is JSON with a
\* `detail` ends the request with that detail as the error message,
\* whatever the detail says; the message with the first 100 characters of
\* the body is raised only for a body that is not JSON.
C20_DetailIsTheMessage ==
  (pc = "done" /\ adapter = "callReplicateAPI") =>
    /\ "create non2xx, detail: Bad key" \in seen =>
          resp.error /\ resp.message = "Bad key"
    /\ "create non2xx, detail: Replicate down" \in seen =>
          resp.error /\ resp.message = "Replicate down"
    /\ "create non2xx, error page" \in seen =>
          /\ resp.error
          /\ resp.message = "Replicate failed: xxxxxxxxxxxxxxxxxxxxxxxxxxxxxxxxxxxxxxxxxxxxxxxxxxxxxxxxxxxxxxxxxxxxxxxxxxxxxxxxxxxxxxxxxxxxxxxxxxxx"

\* C21: a request is single-shot in the worker: the handler enters an
\* adapter's create/call request only from the dispatcher, and the adapter
\* of a request in progress changes only from callStableDiffusionHF to
\* callZImageAPI once the whole stream of the Stable-Diffusion Space was read
\* without an image; a failed connection, a non-2xx reply or an error event
\* leaves the adapter as it is.
C21_SingleShot ==
  [][ variant = "worker" =>
        /\ (adapter # Null /\ adapter' # Null /\ adapter' # adapter) =>
              /\ adapter = "callStableDiffusionHF"
              /\ adapter' = "callZImageAPI"
              /\ pc = "lines"
        /\ (pc' = "call" /\ adapter' = adapter) => pc = "call" ]_vars

\* C22: the cached backend status is never partially updated, in both
\* variants: it is the initial value, or all its fields (mode, backend label,
\* GPU name, modelLoaded, lastCheck) are those one probe cycle produced:
\* a local, a Replicate, a Space or an unavailable status as a whole.
C22_StatusFromOneCycle ==
  LET whole(s) ==
        \/ /\ s.mode = "local"
           /\ s.backend = "cuda" /\ s.gpuName = "Local GPU" /\ s.modelLoaded
        \/ /\ s.mode = "cloud"
           /\ << s.backend, s.gpuName >> \in
                { << "replicate", "Replicate Cloud GPU" >>,
                  << "huggingface", "Cloud GPU (ZeroGPU)" >>,
                  << "cloud", "Cloud GPU" >> }
           /\ s.modelLoaded
        \/ /\ s.mode = "unavailable"
           /\ s.backend = "" /\ s.gpuName = "" /\ ~s.modelLoaded
  IN /\ variant = "worker" =>
          \/ backendStatusCache = None /\ lastCheckTime = 0
          \/ /\ backendStatusCache # None
             /\ whole(backendStatusCache)
             /\ backendStatusCache.lastCheck = lastCheckTime
     /\ variant = "server" =>
          \/ backendStatus = InitStatusServer
          \/ /\ whole(backendStatus)
             /\ backendStatus.lastCheck \in 0..now

\* C23: GET /api/health starts a probe cycle only when no probe cycle has
\* completed yet or the last completed cycle, whatever its outcome, lies
\* more than 30 seconds back (both variants).
C23_HealthProbesOnlyWhenStale ==
  [][ (pc = "idle" /\ prober' = "health") =>
        (lastCycleEnd = -1 \/ now - lastCycleEnd > 30000) ]_vars

\* C24: in the worker a request that names a model whose registry entry is
\* disabled is never served by that model's adapter: no BAGEL, Z-Image or
\* FLUX.2 adapter is called for a disabled bagel-7b-mot, z-image-turbo or
\* flux2-dev, and a disabled cloud model's Space is never the target.
C24_DisabledModelNotServed ==
  (/\ variant = "worker"
   /\ req.modelId \in DOMAIN models
   /\ ~models[req.modelId].enabled) =>
     /\ req.modelId = "bagel-7b-mot" =>
          calls \cap { "callBagelEditAPI", "callBagelTextToImageAPI" } = {}
     /\ req.modelId = "z-image-turbo" => "callZImageAPI" \notin calls
     /\ req.modelId = "flux2-dev" => "callFlux2API" \notin calls
     /\ models[req.modelId].type = "cloud" =>
          target # models[req.modelId].source

\* C25: in every successful /api/generate response the backend field names
\* the adapter that produced the returned image, also when the request was
\* redirected or another adapter was substituted on the way (worker: local,
\* huggingface, replicate, bagel, zimage, flux2; server: the label of the
\* local or cloud adapter of the family).
C25_BackendNamesTheAdapter ==
  LET workerLabel ==
        CASE adapter = "callLocalAPI" -> "local"
          [] adapter = "callReplicateAPI" -> "replicate"
          [] adapter \in { "callGradioAPI", "callStableDiffusionHF" } ->
               "huggingface"
          [] adapter \in { "callBagelEditAPI", "callBagelTextToImageAPI" } ->
               "bagel"
          [] adapter = "callZImageAPI" -> "zimage"
          [] adapter = "callFlux2API" -> "flux2"
          [] OTHER -> Null
      serverLabel ==
        CASE adapter = "callLocalAPI" -> "local"
          [] adapter = "callGradioAPI" -> "qwen-cloud"
          [] adapter = "callBagelLocalAPI" -> "bagel-local"
          [] adapter \in { "callBagelEditAPI", "callBagelTextToImageAPI" } ->
               "bagel-cloud"
          [] adapter = "callZImageLocalAPI" -> "zimage-local"
          [] adapter = "callZImageCloudAPI" -> "zimage-cloud"
          [] adapter = "callFlux2LocalAPI" -> "flux2-local"
          [] adapter = "callFlux2CloudAPI" -> "flux2-cloud"
          [] adapter = "callUpscaleAPI" -> "upscale-local"
          [] OTHER -> Null
  IN (pc = "done" /\ resp # None /\ resp.status = 200) =>
       resp.backend = IF variant = "worker" THEN workerLabel ELSE serverLabel

\* C26 as stated: a Gradio adapter of the worker skips a `data: null` line
\* and goes on with the next line; the scan ends only with a response, the
\* image of the line that carried one or an error, and never goes back to
\* the call or the stream request.
C26_NoImageIsTerminal ==
  [][ (variant = "worker" /\ pc = "lines") =>
        /\ ("skipped null" \notin seen /\ "skipped null" \in seen') =>
              /\ pc' = "lines"
              /\ lineNo' = lineNo + 1
              /\ resp' = resp
        /\ pc' # "lines" =>
              /\ pc' = "done"
              /\ resp' # None
              /\ \/ resp'.status = 200 /\ resp'.image.form = "datauri"
                 \/ resp'.status = 500 /\ resp'.error ]_vars

\* C26, amended: the same, except that callStableDiffusionHF, once its
\* stream is read without an image, hands the request to callZImageAPI,
\* which starts with its own call request; no adapter repeats its own call
\* or stream request.
C26_NoImageIsTerminalButForStableDiffusion ==
  [][ (variant = "worker" /\ pc = "lines") =>
        /\ ("skipped null" \notin seen /\ "skipped null" \in seen') =>
              /\ pc' = "lines"
              /\ lineNo' = lineNo + 1
              /\ resp' = resp
        /\ pc' # "lines" =>
              \/ /\ pc' = "done"
                 /\ resp' # None
                 /\ \/ resp'.status = 200 /\ resp'.image.form = "datauri"
                    \/ resp'.status = 500 /\ resp'.error
              \/ /\ adapter = "callStableDiffusionHF"
                 /\ adapter' = "callZImageAPI"
                 /\ pc' = "call"
                 /\ resp' = None ]_vars

\* a stream of the Qwen Space with a null line and no image, answered 500
C26_NullLineThenNoImage ==
  /\ variant = "worker"
  /\ pc = "done"
  /\ adapter = "callGradioAPI"
  /\ "skipped null" \in seen
  /\ lineNo >= 1
  /\ resp # None
  /\ resp.status = 500
  /\ resp.message = "generation failed"

\* C27: the Gradio adapters of the worker fetch an image only from the URL
\* the line gives (an absolute url or path) or, for a path relative to the
\* Space, from {spaceUrl}/gradio_api/file={path}; a data-URI string is
\* returned without a fetch.
C27_RelativePathUnderGradioFile ==
  (variant = "worker" /\ adapter \in GradioAdapters) =>
    /\ { m \in seen : m \in { "fetch as given", "fetch space file",
                              "fetch space relative" } }
         \subseteq { "fetch as given", "fetch space file" }
    /\ (pc = "done" /\ resp # None /\ resp.status = 200
          /\ seen \cap { "fetch as given", "fetch space file",
                         "fetch space relative" } = {}) =>
         resp.image = [form |-> "datauri", payload |-> "image"]

\* C28: a poll of the Replicate loop that is answered non-2xx or whose
\* request throws does not end the request while attempts remain: the
\* handler stays in the loop of callReplicateAPI, no response is sent and
\* the next poll follows.
C28_FailedPollIsRetried ==
  [][ (/\ pc = "poll"
       /\ polls' = polls + 1
       /\ seen' \cap { "poll non2xx", "poll throws" } # {}
       /\ seen \cap { "poll non2xx", "poll throws" } = {}
       /\ attempts + 1 < 60) =>
        /\ pc' = "poll"
        /\ adapter' = "callReplicateAPI"
        /\ resp' = None ]_vars

\* C29: every POST /api/generate request that was received is eventually
\* answered (Success or Failed), whatever the model id and the replies of
\* the backends, provided each outbound call returns or throws; the
\* Replicate polling loop ends for every sequence of poll statuses.
C29_EveryRequestAnswered ==
  (req # NoRequest) ~> (pc = "done" /\ resp # None)

\* a request answered after polls that reported neither succeeded nor failed
C29_AnsweredAfterPolling ==
  /\ pc = "done"
  /\ req # NoRequest
  /\ adapter = "callReplicateAPI"
  /\ polls >= 3
  /\ attempts >= 2
  /\ resp # None
  /\ resp.status = 200

\* C30: whatever addModel, updateModel, deleteModel and updateSettings calls
\* were made on the worker's registry, settings.activeModelId names a model
\* that is in the registry and is enabled.
C30_ActiveModelPresentAndEnabled ==
  variant = "worker" =>
    \E i \in DOMAIN registry.models :
      /\ registry.models[i].id = registry.settings.activeModelId
      /\ registry.models[i].enabled

\* C31: model ids are unique in the registry after any addModel, updateModel
\* and deleteModel calls (both variants): no two entries have the same id,
\* and an addModel answered with an error wrote nothing.
C31_ModelIdsUnique ==
  /\ \A i, j \in DOMAIN registry.models :
       registry.models[i].id = registry.models[j].id => i = j
  /\ \A h \in DOMAIN adm :
       (adm[h].pc = "done" /\ adm[h].op.kind = "addModel"
          /\ adm[h].status = 400) =>
         ~adm[h].wrote /\ adm[h].saved = None


\* C32: a request that presents the cookie of a session that was logged
\* out before the request was sent, to /api/auth/check or to an admin
\* route, is answered 401 and never reaches the handler, whatever other
\* sessions log in and out meanwhile; and a session that was not logged out
\* and is not older than 24 hours stays in the store as it was created.
C32_LoggedOutSessionRejected ==
  /\ \A h \in DOMAIN adm :
       adm[h].afterLogout =>
         /\ adm[h].pc \in { "auth", "done" }
         /\ ~adm[h].read /\ ~adm[h].wrote
         /\ adm[h].pc = "done" => adm[h].status = 401
  /\ \A s \in DOMAIN issued :
       (s \notin loggedOut /\ now - issued[s] <= 86400000) =>
         s \in DOMAIN sessions /\ sessions[s] = issued[s]

\* the session check of s1, sent after s1 was logged out, is answered 401
\* while the session s2 of the other browser is still in the store
C32_OtherSessionStillValid ==
  /\ "s1" \in loggedOut
  /\ "s2" \in DOMAIN sessions /\ "s2" \notin loggedOut
  /\ \E h \in DOMAIN adm :
       /\ adm[h].pc = "done"
       /\ adm[h].op.kind = "checkSession"
       /\ adm[h].cookie = "s1"
       /\ adm[h].afterLogout
       /\ adm[h].status = 401

\* C33: a request gets past the session validation only with the cookie
\* of a session that a successful login created not more than 24 hours
\* before the validation; a validation later than that answers 401 and
\* leaves the session out of the store, in which it never is again; and a
\* login that is not answered 200 stores no session and sets no cookie.
C33_SessionLivesADay ==
  /\ [](\A h \in DOMAIN adm :
          LET a == adm[h]
              created == IF a.cookie \in DOMAIN issued
                         THEN issued[a.cookie] ELSE -1
          IN  /\ (a.pc \in { "handler", "save" }
                    \/ (a.pc = "done" /\ a.status # 401)) =>
                   created >= 0 /\ a.authAt - created <= 86400000
              /\ (a.pc = "done" /\ created >= 0
                    /\ a.authAt - created > 86400000) =>
                   a.status = 401 /\ a.cookie \notin DOMAIN sessions)
  /\ [][(authResp' # authResp /\ authResp'.status # 200) =>
          (sessions' = sessions /\ authResp'.cookie = Null)]_vars

\* the session s1, created at 0, is presented one millisecond after its
\* 24 hours: 401, and s1 is out of the store; the last login had a wrong
\* password and was answered 401 without a cookie
C33_ExpiredAtFirstValidation ==
  /\ authResp # None /\ authResp.status = 401 /\ authResp.cookie = Null
  /\ "s1" \in DOMAIN issued /\ issued["s1"] = 0
  /\ "s1" \notin DOMAIN sessions /\ "s1" \notin loggedOut
  /\ \E h \in DOMAIN adm :
       /\ adm[h].pc = "done"
       /\ adm[h].cookie = "s1"
       /\ adm[h].authAt = 86400001
       /\ adm[h].status = 401


\* every /api/generate request in flight was started with a prompt that is
\* not blank, with at least one enabled image in edit mode and at least
\* two in combine mode, and it is the only one in flight
GenerationStartGuarded ==
  /\ Len(ui.fetches) <= 1
  /\ \A k \in DOMAIN ui.fetches :
       LET f == ui.fetches[k] IN
         /\ \E i \in DOMAIN f.prompt : f.prompt[i] # " "
         /\ f.mode = "edit" => f.images >= 1
         /\ f.mode = "combine" => f.images >= 2

\* the step that ends a generation leaves isProcessing false, and either an
\* output image and the message of the success, or no output image and
\* the message of the error
GenerationEndsSettled ==
  Len(ui'.fetches) < Len(ui.fetches) =>
    /\ ~ui'.status.isProcessing
    /\ \/ ui'.outputImage # Null /\ ui'.status.message = "done"
       \/ ui'.outputImage = Null /\ ui'.status.message = "error"

\* C34: in the UI a generation is started only with a non-blank prompt, no
\* generation in flight, and enough enabled images for the mode (one in
\* edit, two in combine), so at most one /api/generate request is in
\* flight; and every generation ends with isProcessing false and either
\* the output image set, or no output image and an error message.
C34_GenerationGuardedAndEnds ==
  [] GenerationStartGuarded /\ [][GenerationEndsSettled]_vars

\* C35: as long as the mode was not changed on the toolbar, after any add,
\* remove and clear events (several adds before a re-render included) the
\* list holds at most 4 images and the mode is generate with no image,
\* edit with one, combine with two or more.
C35_ModeMatchesImageCount ==
  ~ui.manual =>
    /\ Len(ui.images) <= 4
    /\ ui.editMode = CASE Len(ui.images) = 0 -> "generate"
                       [] Len(ui.images) = 1 -> "edit"
                       [] OTHER -> "combine"


\* C36: in the worker, when the default model (qwen-image-edit) is
\* dispatched on a cached status whose backend is replicate and the
\* request has neither image1 nor image2, the step answers 400 with the
\* error envelope, chooses no adapter and makes no call; and
\* callReplicateAPI is never called for a request without an image.
C36_NoImageNoPrediction ==
  /\ [](variant = "worker" /\ "callReplicateAPI" \in calls =>
          req.image1 \/ req.image2)
  /\ [][(/\ variant = "worker"
         /\ pc = "dispatch"
         /\ activeModelId(selectedModel, req.modelId) = "qwen-image-edit"
         /\ ~(selectedModel # None /\ selectedModel.type = "cloud")
         /\ backendStatusCache # None
         /\ backendStatusCache.mode = "cloud"
         /\ backendStatusCache.backend = "replicate"
         /\ ~req.image1 /\ ~req.image2) =>
          /\ pc' = "done"
          /\ resp' # None
          /\ resp'.status = 400 /\ resp'.error /\ resp'.image = NoImage
          /\ calls' = calls
          /\ adapter' = adapter]_vars

\* the default model without an image was answered 400 on the replicate
\* backend, and no adapter was called for the request
C36_RefusedBeforeReplicate ==
  /\ variant = "worker"
  /\ pc = "done"
  /\ resp # None /\ resp.status = 400 /\ resp.message = "image required"
  /\ req.modelId \in { Null, "qwen-image-edit" }
  /\ ~req.image1 /\ ~req.image2
  /\ backendStatusCache # None /\ backendStatusCache.backend = "replicate"
  /\ calls \subseteq { "getModel", "translate", "probe" }


\* C37: an updateSettings whose body gives an activeModelId that names no
\* model of the registry it loaded, or a model that is not enabled, is
\* answered with that error and writes nothing; a successful one writes
\* the loaded registry with the same model list and with the settings
\* fields of the body, the other fields as they were.
C37_SettingsUpdateFrame ==
  \A h \in DOMAIN adm :
    (adm[h].pc = "done" /\ adm[h].op.kind = "updateSettings" /\ adm[h].read) =>
      LET cfg == adm[h].config
          want == adm[h].op.body.activeModelId
          fb == adm[h].op.body.fallbackToCloud
          named == want # Null
          found == { i \in DOMAIN cfg.models : cfg.models[i].id = want }
      IN  /\ (named /\ found = {}) =>
                /\ adm[h].status = 400
                /\ adm[h].message = "model does not exist"
                /\ ~adm[h].wrote /\ adm[h].saved = None
          /\ (named /\ found # {} /\ \A i \in found : ~cfg.models[i].enabled) =>
                /\ adm[h].status = 400
                /\ adm[h].message = "model is disabled"
                /\ ~adm[h].wrote /\ adm[h].saved = None
          /\ adm[h].status = 200 =>
                /\ adm[h].wrote
                /\ adm[h].saved.models = cfg.models
                /\ adm[h].saved.settings.activeModelId =
                     IF named THEN want ELSE cfg.settings.activeModelId
                /\ adm[h].saved.settings.fallbackToCloud =
                     CASE fb = "true" -> TRUE [] fb = "false" -> FALSE
                       [] OTHER -> cfg.settings.fallbackToCloud

====
